---- MODULE Spec2Model ----
(***************************************************************************)
(* Model of the GDB remote debug server of the emulator                    *)
(* (src/vita3k/gdbstub/src/gdb.cpp): the packet framer of server_next, the *)
(* dispatch table, the handlers and the stop-the-world controller of       *)
(* cmd_continue, run against the guest threads of the kernel.              *)
(*                                                                         *)
(* A byte is a one-character string; a byte string is a sequence of them.  *)
(* A 32-bit value is a record [hi, lo] of two 16-bit halves, because the   *)
(* model checker's integers are narrower than uint32_t.                    *)
(***************************************************************************)
EXTENDS Integers, Sequences, FiniteSets, TLC

(***************************************************************************)
(* Bytes                                                                   *)
(***************************************************************************)

\* The printable ASCII characters, in code order from 0x20.
AsciiTable ==
    << " ", "!", "x22", "#", "$", "%", "&", "x27", "x28", "x29", "x2a", "+", ",", "-", ".", "/",
       "0", "1", "2", "3", "4", "5", "6", "7", "8", "9", ":", ";", "<", "=", ">", "?",
       "@", "A", "B", "C", "D", "E", "F", "G", "H", "I", "J", "K", "L", "M", "N", "O",
       "P", "Q", "R", "S", "T", "U", "V", "W", "X", "Y", "Z", "[", "x5c", "]", "^", "_",
       "x60", "a", "b", "c", "d", "e", "f", "g", "h", "i", "j", "k", "l", "m", "n", "o",
       "p", "q", "r", "s", "t", "u", "v", "w", "x", "y", "z", "{", "|", "}", "~" >>

\* The value of a byte as an unsigned char.  "xNN" names the byte 0xNN where
\* the character itself cannot be written.
ord(c) ==
    IF c = "x80" THEN 128
    ELSE IF c = "xff" THEN 255
    ELSE 31 + (CHOOSE i \in 1..Len(AsciiTable) : AsciiTable[i] = c)

HexDigits ==
    << "0", "1", "2", "3", "4", "5", "6", "7", "8", "9", "a", "b", "c", "d", "e", "f" >>

\* The value of a hex digit of either case, -1 for any other byte.
HexVal(c) ==
    IF \E i \in 1..16 : HexDigits[i] = c
    THEN (CHOOSE i \in 1..16 : HexDigits[i] = c) - 1
    ELSE IF c = "A" THEN 10 ELSE IF c = "B" THEN 11 ELSE IF c = "C" THEN 12
    ELSE IF c = "D" THEN 13 ELSE IF c = "E" THEN 14 ELSE IF c = "F" THEN 15
    ELSE -1

\* The first index >= i of s that holds byte c, 0 when there is none
\* (std::string::find).
RECURSIVE Find(_, _, _)
Find(s, c, i) ==
    IF i > Len(s) THEN 0
    ELSE IF s[i] = c THEN i
    ELSE Find(s, c, i + 1)

\* s from index i to its end.
Tail_(s, i) == SubSeq(s, i, Len(s))

\* size_t and uint64_t values are kept modulo SizeMod: the strings of the model
\* are far shorter, so a sum or difference that wraps does so as it does in 64
\* bits.  npos is the largest value.
SizeMod == 1048576

npos == SizeMod - 1

\* a + b and a - b in size_t.
SizeAdd(a, b) == (a + b) % SizeMod

SizeSub(a, b) == (a - b + SizeMod) % SizeMod

\* std::string::find(c, from): the 0-based index of the first c at or after
\* from, npos when there is none.
StrFind(s, c, from) ==
    IF from >= Len(s) \/ Find(s, c, from + 1) = 0 THEN npos ELSE Find(s, c, from + 1) - 1

\* std::string::substr(position, n), for position <= size (it throws otherwise).
StrSub(s, position, n) ==
    SubSeq(s, position + 1, IF n > Len(s) - position THEN Len(s) ELSE position + n)

(***************************************************************************)
(* 32-bit values                                                           *)
(***************************************************************************)

Half == 65536

U32(h, l) == [hi |-> h, lo |-> l]

U32Zero == U32(0, 0)

U32Max == U32(Half - 1, Half - 1)

\* A small natural number as a 32-bit value.
ToU32(n) == U32(n \div Half, n % Half)

\* 16 * v + d in 32 bits.
U32ShiftDigit(v, d) ==
    LET l == v.lo * 16 + d
        h == v.hi * 16 + (l \div Half)
    IN  U32(h % Half, l % Half)

\* 0 - v in 32 bits.
U32Neg(v) ==
    IF v.lo = 0 THEN U32((Half - v.hi) % Half, 0)
    ELSE U32(Half - 1 - v.hi, Half - v.lo)

\* static_cast<int32_t>(v)
ToInt32(v) ==
    IF v.hi < Half \div 2 THEN v.hi * Half + v.lo
    ELSE (v.hi - Half) * Half + v.lo

\* static_cast<uint8_t>(v)
ToU8(v) == v.lo % 256

\* htonl(v) on a little-endian host (every host the emulator is built for):
\* the four bytes in reverse order.
htonl(v) ==
    U32((v.lo % 256) * 256 + (v.lo \div 256), (v.hi % 256) * 256 + (v.hi \div 256))

(***************************************************************************)
(* Hex and checksum codec                                                  *)
(***************************************************************************)

IsSpace(c) == c = " "

\* The hex digits strtoul consumes from index i of s: [val, n] with val their
\* value (saturated to the largest unsigned long once more than 16 significant
\* digits were read) and n how many significant digits were read.
RECURSIVE HexRun(_, _, _, _)
HexRun(s, i, val, n) ==
    IF i > Len(s) \/ HexVal(s[i]) < 0 THEN [val |-> val, n |-> n]
    ELSE IF n = 0 /\ HexVal(s[i]) = 0 THEN HexRun(s, i + 1, val, n)
    ELSE IF n >= 16 THEN HexRun(s, i + 1, U32Max, 17)
    ELSE HexRun(s, i + 1, U32ShiftDigit(val, HexVal(s[i])), n + 1)

\* The index of the first byte of s at or after i that is not white space.
RECURSIVE SkipSpace(_, _)
SkipSpace(s, i) ==
    IF i <= Len(s) /\ IsSpace(s[i]) THEN SkipSpace(s, i + 1) ELSE i

\* static_cast<uint32_t>(std::strtoul(hex.c_str(), nullptr, 16)): leading white
\* space, an optional sign, an optional 0x, then hex digits up to the first
\* byte that is none.
parse_hex(hex) ==
    LET i0   == SkipSpace(hex, 1)
        neg  == i0 <= Len(hex) /\ hex[i0] = "-"
        i1   == IF i0 <= Len(hex) /\ hex[i0] \in {"+", "-"} THEN i0 + 1 ELSE i0
        pfx  == /\ i1 + 2 <= Len(hex)
                /\ hex[i1] = "0"
                /\ hex[i1 + 1] \in {"x", "X"}
                /\ HexVal(hex[i1 + 2]) >= 0
        i2   == IF pfx THEN i1 + 2 ELSE i1
        run  == HexRun(hex, i2, U32Zero, 0)
    IN  IF neg /\ run.n <= 16 THEN U32Neg(run.val) ELSE run.val

\* fmt::format("{:0>8x}", value)
to_hex(value) ==
    << HexDigits[(value.hi \div 4096) + 1], HexDigits[((value.hi \div 256) % 16) + 1],
       HexDigits[((value.hi \div 16) % 16) + 1], HexDigits[(value.hi % 16) + 1],
       HexDigits[(value.lo \div 4096) + 1], HexDigits[((value.lo \div 256) % 16) + 1],
       HexDigits[((value.lo \div 16) % 16) + 1], HexDigits[(value.lo % 16) + 1] >>

\* fmt::format("{:0>8x}", htonl(value))
be_hex(value) == to_hex(htonl(value))

\* fmt::format("{:0>2x}", checksum) of a uint8_t.
hex2(n) == << HexDigits[(n \div 16) + 1], HexDigits[(n % 16) + 1] >>

\* The sum of bytes i to j of data, mod 256 (by halves, so that a long reply
\* is summed in few nested steps).
RECURSIVE SumBytes(_, _, _)
SumBytes(data, i, j) ==
    IF i > j THEN 0
    ELSE IF i = j THEN ord(data[i])
    ELSE (SumBytes(data, i, (i + j) \div 2) + SumBytes(data, ((i + j) \div 2) + 1, j)) % 256

make_checksum(data) == SumBytes(data, 1, Len(data))

(***************************************************************************)
(* Packets                                                                 *)
(***************************************************************************)

\* The last index of data that holds '#', 0 when there is none.
RECURSIVE LastHash(_, _)
LastHash(data, i) ==
    IF i = 0 THEN 0
    ELSE IF data[i] = "#" THEN i
    ELSE LastHash(data, i - 1)

\* parse_command without the comparison of the checksum.
parse_command_AnyChecksum(data) ==
    LET length      == Len(data)
        begin_index == IF length > 1 THEN 1 ELSE -1
        end_index   == LastHash(data, length) - 1
        framed      == /\ begin_index # -1
                       /\ end_index # -1
                       /\ end_index > begin_index
                       /\ end_index + 2 < length
        content     == SubSeq(data, begin_index + 1, end_index)
    IN  IF ~framed THEN [is_valid |-> FALSE, content |-> << >>]
        ELSE [is_valid |-> TRUE, content |-> content]

\* parse_command on the packet bytes data ("$" to the second byte after the
\* "#" server_next found): the PacketCommand's is_valid and its content.
\* Indexes are the code's 0-based ones; -1 is "not found".
parse_command(data) ==
    LET length      == Len(data)
        begin_index == IF length > 1 THEN 1 ELSE -1
        end_index   == LastHash(data, length) - 1
        framed      == /\ begin_index # -1
                       /\ end_index # -1
                       /\ end_index > begin_index
                       /\ end_index + 2 < length
        content     == SubSeq(data, begin_index + 1, end_index)
        checksum    == ToU8(parse_hex(SubSeq(data, end_index + 2, end_index + 3)))
    IN  IF ~framed THEN [is_valid |-> FALSE, content |-> << >>]
        ELSE [is_valid |-> make_checksum(content) = checksum, content |-> content]

\* The bytes server_reply sends for the reply body data: "$" data "#" and the
\* two lowercase hex digits of its checksum.  (The body is passed as a C
\* string; no reply of the handlers holds a NUL byte.)
Framed(data) == << "$" >> \o data \o << "#" >> \o hex2(make_checksum(data))

(***************************************************************************)
(* The dispatch table                                                      *)
(***************************************************************************)

Entry(n, f) == [name |-> n, function |-> f]

functions ==
    << Entry(<< "!" >>, "cmd_unimplemented"),
       Entry(<< "?" >>, "cmd_reason"),
       Entry(<< "H" >>, "cmd_set_current_thread"),
       Entry(<< "T" >>, "cmd_thread_alive"),
       Entry(<< "i" >>, "cmd_unimplemented"),
       Entry(<< "I" >>, "cmd_unimplemented"),
       Entry(<< "A" >>, "cmd_unimplemented"),
       Entry(<< "b", "c" >>, "cmd_unimplemented"),
       Entry(<< "b", "s" >>, "cmd_unimplemented"),
       Entry(<< "t" >>, "cmd_unimplemented"),
       Entry(<< "p" >>, "cmd_read_register"),
       Entry(<< "P" >>, "cmd_write_register"),
       Entry(<< "g" >>, "cmd_read_registers"),
       Entry(<< "G" >>, "cmd_write_registers"),
       Entry(<< "m" >>, "cmd_read_memory"),
       Entry(<< "M" >>, "cmd_write_memory"),
       Entry(<< "X" >>, "cmd_unimplemented"),
       Entry(<< "q", "f", "T", "h", "r", "e", "a", "d", "I", "n", "f", "o" >>,
             "cmd_get_first_thread"),
       Entry(<< "q", "s", "T", "h", "r", "e", "a", "d", "I", "n", "f", "o" >>,
             "cmd_get_next_thread"),
       Entry(<< "q", "S", "u", "p", "p", "o", "r", "t", "e", "d" >>, "cmd_supported"),
       Entry(<< "q", "A", "t", "t", "a", "c", "h", "e", "d" >>, "cmd_attached"),
       Entry(<< "q", "T", "S", "t", "a", "t", "u", "s" >>, "cmd_thread_status"),
       Entry(<< "q", "C" >>, "cmd_get_current_thread"),
       Entry(<< "q" >>, "cmd_unimplemented"),
       Entry(<< "Q" >>, "cmd_unimplemented"),
       Entry(<< "d" >>, "cmd_unimplemented"),
       Entry(<< "r" >>, "cmd_unimplemented"),
       Entry(<< "R" >>, "cmd_unimplemented"),
       Entry(<< "k" >>, "cmd_die"),
       Entry(<< "v", "C", "o", "n", "t", "?" >>, "cmd_continue_supported"),
       Entry(<< "v", "C", "o", "n", "t" >>, "cmd_continue"),
       Entry(<< "v", "K", "i", "l", "l" >>, "cmd_kill"),
       Entry(<< "v", "M", "u", "s", "t", "R", "e", "p", "l", "y", "E", "m", "p", "t", "y" >>,
             "cmd_reply_empty"),
       Entry(<< "v" >>, "cmd_unimplemented"),
       Entry(<< "z" >>, "cmd_remove_breakpoint"),
       Entry(<< "Z" >>, "cmd_add_breakpoint"),
       Entry(<< "b" >>, "cmd_deprecated"),
       Entry(<< "B" >>, "cmd_deprecated"),
       Entry(<< "c" >>, "cmd_deprecated"),
       Entry(<< "C" >>, "cmd_deprecated"),
       Entry(<< "s" >>, "cmd_deprecated"),
       Entry(<< "S" >>, "cmd_deprecated") >>

\* command_begins_with comparing the first byte only.
command_begins_with_FirstByte(content, small_str) ==
    /\ Len(content) >= Len(small_str)
    /\ content[1] = small_str[1]

\* Whether the command's content starts with the bytes of small_str.
command_begins_with(content, small_str) ==
    /\ Len(content) >= Len(small_str)
    /\ SubSeq(content, 1, Len(small_str)) = small_str

\* FoundFunction with the loop going on after a match: the last entry wins.
FoundFunction_LastMatch(content) ==
    LET hits == { i \in 1..Len(functions) : command_begins_with(content, functions[i].name) }
    IN  IF hits = {} THEN ""
        ELSE functions[CHOOSE i \in hits : \A j \in hits : i >= j].function

\* FoundFunction with the entry of X bound to cmd_write_binary.
FoundFunction_XWrites(content) ==
    LET hits == { i \in 1..Len(functions) : command_begins_with(content, functions[i].name) }
        first == CHOOSE i \in hits : \A j \in hits : i <= j
    IN  IF hits = {} THEN ""
        ELSE IF functions[first].name = << "X" >> THEN "cmd_write_binary"
        ELSE functions[first].function

\* The handler server_next's loop over the table calls for content: that of
\* the first entry whose name the content begins with, "" when there is none.
FoundFunction(content) ==
    LET hits == { i \in 1..Len(functions) : command_begins_with(content, functions[i].name) }
    IN  IF hits = {} THEN ""
        ELSE functions[CHOOSE i \in hits : \A j \in hits : i <= j].function

(***************************************************************************)
(* State                                                                   *)
(***************************************************************************)

VARIABLES
    \* GDBState
    server_die,         \* the shutdown flag
    client_socket,      \* "open", or "BAD_SOCK" once server_close closed it
    last_reply,         \* the body the last handler returned
    current_thread,     \* the thread of the register handlers, -1 when invalid
    inferior_thread,    \* the thread that last hit a breakpoint, 0 when none
    thread_info_index,  \* the cursor of qfThreadInfo / qsThreadInfo
    \* server_listen / server_next
    pc,                 \* where the server thread is
    recv_buffer,        \* the static receive buffer
    command,            \* the PacketCommand parse_command gave for the packet at pos
    pos,                \* the scan position in recv_buffer (0-based)
    \* cmd_continue
    it,                 \* the thread-table iterator of the running loop (a key; 0 at end)
    \* the client's side of the socket
    sent,               \* every byte the server has sent, in order
    reads,              \* how many recv() calls returned data
    inbound,            \* every byte recv() has returned, in order
    \* KernelState
    threads,            \* the thread table: id -> [status, to_do, hit]
    next_uid,           \* the id the next thread created gets
    kmutex,             \* owner of kernel.mutex: "free", "server" or "guest"
    \* the guest, as the handlers reach it
    cpu,                \* the registers of each thread's CPU: id -> (index -> value)
    mem,                \* MemState: elf_base and the bytes written so far, by address
    effect,             \* what the last handler did to the guest: registers and
                        \* bytes it accessed, calls it made to the debugger
    \* history
    mark,               \* Len(sent) when the packet being handled was found
    snap,               \* the GDBState fields when the packet being handled was found
    invoked,            \* the handler called for the packet being handled, "" if none
    last_emitted,       \* the body of the last reply sent by dispatch; <<"none">> before any
    observed,           \* what phase 2 of continue-all saw when it chose inferior_thread
    access              \* the last access of a handler to guest state: [fn, kmutex]

gdbVars == << server_die, client_socket, last_reply, current_thread, inferior_thread,
              thread_info_index >>

loopVars == << pc, recv_buffer, pos, it, command >>

wireVars == << sent, reads, inbound >>

kernelVars == << threads, next_uid, kmutex >>

guestVars == << cpu, mem, effect >>

histVars == << mark, snap, invoked, last_emitted, observed, access >>

vars == << gdbVars, loopVars, wireVars, kernelVars, guestVars, histVars >>

(***************************************************************************)
(* The kernel's thread table                                               *)
(***************************************************************************)

\* The thread ids the guest may use.
MaxThreads == 3

TIDS == 1..MaxThreads

ThreadState(st, td, h) == [status |-> st, to_do |-> td, hit |-> h]

\* kernel.threads.begin()->first of a non-empty table.
FirstThread(table) == CHOOSE t \in DOMAIN table : \A u \in DOMAIN table : t <= u

\* The key after key k in iteration order, 0 at the end.
NextThread(table, k) ==
    LET later == { u \in DOMAIN table : u > k }
    IN  IF later = {} THEN 0 ELSE CHOOSE t \in later : \A u \in later : t <= u

\* The keys of the table in iteration order.
RECURSIVE KeysFrom(_, _)
KeysFrom(table, k) ==
    IF NextThread(table, k) = 0 THEN << >>
    ELSE << NextThread(table, k) >> \o KeysFrom(table, NextThread(table, k))

Keys(table) == KeysFrom(table, 0)

(***************************************************************************)
(* Guest memory (the memory subsystem, seen through its interface)         *)
(***************************************************************************)

\* KiB(4), the page size.
page_size == 4096

\* The pages the guest has mapped: 0x00010000 to 0x00010fff.
ValidPages == { 16 }

\* a + b in 32 bits.
U32Add(a, b) ==
    LET l == a.lo + b.lo
        h == a.hi + b.hi + (l \div Half)
    IN  U32(h % Half, l % Half)

\* a < b as unsigned 32-bit values.
U32Less(a, b) == a.hi < b.hi \/ (a.hi = b.hi /\ a.lo < b.lo)

\* The page of address a.
PageOf(a) == a.hi * (Half \div page_size) + (a.lo \div page_size)

is_valid_addr(address) == PageOf(address) \in ValidPages

\* The range check of the memory subsystem on [address, guest_end).
is_valid_guest_addr_range(address, guest_end) ==
    /\ ~U32Less(guest_end, address)
    /\ is_valid_addr(address)
    /\ (guest_end = address \/ is_valid_addr(U32Add(guest_end, U32Max)))

\* check_memory_region: every page_size-th address from address, below
\* address + length (in 32 bits), is valid.
RECURSIVE RegionValid(_, _)
RegionValid(i, end) ==
    IF ~U32Less(i, end) THEN TRUE
    ELSE IF ~is_valid_addr(i) THEN FALSE
    ELSE RegionValid(U32Add(i, ToU32(page_size)), end)

check_memory_region(address, length) ==
    IF address = U32Zero THEN FALSE
    ELSE RegionValid(address, U32Add(address, length))

\* The byte the guest holds at address a before any write.
GuestByte(a) == (a.lo * 7 + 1) % 256

\* a - b in 32 bits.
U32Sub(a, b) == U32Add(a, U32Neg(b))

\* Whether address is a valid guest address (the test of the breakpoint
\* handlers).
is_valid_guest_addr(address) == is_valid_addr(address)

\* Where Ptr<uint8_t>(a).get(m) points, as an offset into the host's
\* reservation: page_table[a / 4 KiB] + a % 4 KiB with the page table in use,
\* the entry of a page being where that page lies in the reservation, and a
\* itself without it.
HostOffset(m, a) ==
    IF m.use_page_table
    THEN U32Add(ToU32(PageOf(a) * page_size), ToU32(a.lo % page_size))
    ELSE a

\* *Ptr<uint8_t>(a).get(mem): the byte at guest address a.
MemByte(a) ==
    IF HostOffset(mem, a) \in DOMAIN mem.bytes THEN mem.bytes[HostOffset(mem, a)]
    ELSE GuestByte(HostOffset(mem, a))

\* Ptr<uint8_t>(a).get_guest(mem) is nullptr: for address 0 and when the address
\* relative to elf_base is not valid.
get_guest_null(m, a) == a = U32Zero \/ ~is_valid_addr(U32Sub(a, m.elf_base))

\* Ptr<uint8_t>(a).get_guest(mem) when it is not nullptr: the byte at the
\* address relative to elf_base.
get_guest(m, a) == U32Sub(a, m.elf_base)

\* MemState m after byte v is stored where get_guest(m, a) points.
Stored(m, a, v) ==
    [m EXCEPT !.bytes = [x \in DOMAIN m.bytes \cup { get_guest(m, a) } |->
                            IF x = get_guest(m, a) THEN v ELSE m.bytes[x]]]

(***************************************************************************)
(* Guest registers                                                         *)
(***************************************************************************)

\* The register indexes of the wire: r0-r12, sp, lr, pc, s0-s7, fpscr, cpsr.
Regs == 0..25

\* Whether the 32-bit value reg is a register index.
IsReg(reg) == reg.hi = 0 /\ reg.lo \in Regs

\* fetch_reg: the value of register reg of thread t, 0 for an index above 25.
fetch_reg(c, t, reg) == IF IsReg(reg) THEN c[t][reg.lo] ELSE U32Zero

\* modify_reg: the registers after register reg of thread t is given value;
\* nothing changes for an index above 25.
modify_reg(c, t, reg, value) ==
    IF IsReg(reg) THEN [c EXCEPT ![t][reg.lo] = value] ELSE c

\* The registers of thread t an access to register reg touches.
RegTouched(t, reg) == IF IsReg(reg) THEN { << t, reg.lo >> } ELSE {}

(***************************************************************************)
(* Handlers                                                                *)
(***************************************************************************)

\* A handler that does not reach the guest: the registers and the bytes it
\* accessed, the calls it made to the debugger, whether it read the thread
\* table through an iterator at or past end().
NoEffect == [regs |-> {}, bytes |-> {}, calls |-> << >>, past_end |-> FALSE]

\* What a handler returns and leaves behind: the reply body, current_thread,
\* thread_info_index, server_die, whether it ended the process (an exception
\* no one catches, a write through a null pointer), the guest's registers and
\* memory, and what it did to the guest.
Result(r, cur, idx, die, crash) ==
    [reply |-> r, cur |-> cur, idx |-> idx, die |-> die, crash |-> crash,
     cpu |-> cpu, mem |-> mem, effect |-> NoEffect]

\* The handler ends the process.
Crash == Result(<< >>, current_thread, thread_info_index, server_die, TRUE)

Reply(r) == Result(r, current_thread, thread_info_index, server_die, FALSE)

OK == << "O", "K" >>

E00 == << "E", "0", "0" >>

EAA == << "E", "A", "A" >>

S05 == << "S", "0", "5" >>

\* The hex digits of n > 0, without padding.
RECURSIVE HexOf(_)
HexOf(n) ==
    IF n < 16 THEN << HexDigits[n + 1] >>
    ELSE HexOf(n \div 16) \o << HexDigits[(n % 16) + 1] >>

\* s filled on the left with "0" to width 8.
RECURSIVE PadLeft(_)
PadLeft(s) == IF Len(s) >= 8 THEN s ELSE PadLeft(<< "0" >> \o s)

\* fmt::format("{:0>8x}", value) of a SceUID (a signed int): a negative value
\* is written as "-" and the hex digits of its magnitude.
to_hex_uid(value) ==
    IF value >= 0 THEN to_hex(ToU32(value))
    ELSE PadLeft(<< "-" >> \o HexOf(-value))

cmd_supported ==
    << "m", "u", "l", "t", "i", "p", "r", "o", "c", "e", "s", "s", "-", ";", "s", "w", "b",
       "r", "e", "a", "k", "+", ";", "h", "w", "b", "r", "e", "a", "k", "-", ";", "q", "R",
       "e", "l", "o", "c", "I", "n", "s", "n", "-", ";", "f", "o", "r", "k", "-", "e", "v",
       "e", "n", "t", "s", "-", ";", "v", "f", "o", "r", "k", "-", "e", "v", "e", "n", "t",
       "s", "-", ";", "e", "x", "e", "c", "-", "e", "v", "e", "n", "t", "s", "-", ";", "v",
       "C", "o", "n", "t", "S", "u", "p", "p", "o", "r", "t", "e", "d", "+", ";", "Q", "T",
       "h", "r", "e", "a", "d", "E", "v", "e", "n", "t", "s", "-", ";", "n", "o", "-", "r",
       "e", "s", "u", "m", "e", "d", "-", ";", "x", "m", "l", "R", "e", "g", "i", "s", "t",
       "e", "r", "s", "=", "a", "r", "m" >>

cmd_continue_supported ==
    << "v", "C", "o", "n", "t", ";", "c", ";", "C", ";", "s", ";", "S", ";", "t", ";",
       "r" >>

\* select_thread: thread 0 is the first thread of the table, -1 when empty.
select_thread(thread_id) ==
    IF thread_id = 0
    THEN IF DOMAIN threads = {} THEN -1 ELSE FirstThread(threads)
    ELSE thread_id

\* cmd_set_current_thread.  With a one-byte content the length passed to
\* std::string is -1 as an unsigned long and the constructor throws.
cmd_set_current_thread(content) ==
    IF Len(content) < 2 THEN Result(<< >>, current_thread, thread_info_index, server_die, TRUE)
    ELSE LET thread_id == ToInt32(parse_hex(Tail_(content, 3)))
         IN  IF content[2] = "g"
             THEN Result(OK, select_thread(thread_id), thread_info_index, server_die, FALSE)
             ELSE Reply(OK)

cmd_get_current_thread == Reply(<< "Q", "C" >> \o to_hex_uid(current_thread))

cmd_thread_alive(content) ==
    LET thread_id == ToInt32(parse_hex(Tail_(content, 2)))
    IN  IF thread_id \in DOMAIN threads THEN Reply(OK) ELSE Reply(E00)

\* The ids a read through an end() iterator may give.
Garbage == { 0, 7 }

\* cmd_get_first_thread; ub is what begin()->first reads in an empty table.
cmd_get_first_thread(ub) ==
    LET first == IF DOMAIN threads = {} THEN ub ELSE FirstThread(threads)
    IN  [Result(<< "m" >> \o to_hex_uid(first), current_thread, 0, server_die, FALSE)
           EXCEPT !.effect.past_end = (DOMAIN threads = {})]

\* cmd_get_next_thread; ub is what an iterator advanced past the end reads.
cmd_get_next_thread(ub) ==
    LET index == thread_info_index + 1
        size  == Cardinality(DOMAIN threads)
        r     == IF index = size THEN << "l" >>
                 ELSE IF index < size THEN << "m" >> \o to_hex_uid(Keys(threads)[index + 1])
                 ELSE << "m" >> \o to_hex_uid(ub)
    IN  [Result(r, current_thread, index, server_die, FALSE)
           EXCEPT !.effect.past_end = (index > size)]

\* The bytes of guest memory from address, length of them, as lowercase hex.
RECURSIVE HexBytes(_, _)
HexBytes(address, length) ==
    IF length = 0 THEN << >>
    ELSE hex2(MemByte(address)) \o HexBytes(U32Add(address, ToU32(1)), length - 1)

\* The length addresses from address.
RECURSIVE Range(_, _)
Range(address, length) ==
    IF length = 0 THEN {}
    ELSE { address } \cup Range(U32Add(address, ToU32(1)), length - 1)

\* (address and length are bound as values, so that each is parsed once.)
cmd_read_memory(content) ==
    LET comma  == Find(content, ",", 1)
        first  == IF comma = 0 THEN Tail_(content, 2) ELSE SubSeq(content, 2, comma - 1)
        second == IF comma = 0 THEN content ELSE Tail_(content, comma + 1)
        read(address, length) ==
            IF ~is_valid_guest_addr_range(address, U32Add(address, length)) THEN Reply(EAA)
            ELSE IF ~check_memory_region(address, length) THEN Reply(EAA)
            ELSE [Reply(HexBytes(address, ToInt32(length)))
                     EXCEPT !.effect.bytes = Range(address, ToInt32(length))]
    IN  CHOOSE r \in { read(address, length) : address \in { parse_hex(first) },
                                               length \in { parse_hex(second) } } : TRUE

\* NoCurrentThread without the test that the table holds current_thread.
NoCurrentThread_OnlyMinusOne == current_thread = -1

\* Whether current_thread names no thread of the table.
NoCurrentThread == current_thread = -1 \/ current_thread \notin DOMAIN threads

\* be_hex of registers a to 15 of thread t, in order.
RECURSIVE RegsHex(_, _)
RegsHex(t, a) ==
    IF a > 15 THEN << >> ELSE be_hex(fetch_reg(cpu, t, ToU32(a))) \o RegsHex(t, a + 1)

cmd_read_registers ==
    IF NoCurrentThread THEN Reply(E00)
    ELSE [Reply(RegsHex(current_thread, 0))
             EXCEPT !.effect.regs = { << current_thread, a >> : a \in 0..15 }]

\* The registers after the values of payload, eight digits each, from the
\* a-th on, are written to registers a, a + 1, ... of thread t.
RECURSIVE WriteRegs(_, _, _, _)
WriteRegs(c, t, payload, a) ==
    IF a >= Len(payload) \div 8 THEN c
    ELSE WriteRegs(modify_reg(c, t, ToU32(a), parse_hex(StrSub(payload, a * 8, 8))),
                   t, payload, a + 1)

cmd_write_registers(content) ==
    IF NoCurrentThread THEN Reply(E00)
    ELSE LET payload == StrSub(content, 1, npos)
         IN  [Reply(OK)
                 EXCEPT !.cpu = WriteRegs(cpu, current_thread, payload, 0),
                        !.effect.regs = { << current_thread, a >> :
                                            a \in { n \in Regs : n < Len(payload) \div 8 } }]

cmd_read_register(content) ==
    IF NoCurrentThread THEN Reply(E00)
    ELSE LET reg == parse_hex(StrSub(content, 1, Len(content) - 1))
         IN  [Reply(be_hex(fetch_reg(cpu, current_thread, reg)))
                 EXCEPT !.effect.regs = RegTouched(current_thread, reg)]

cmd_write_register(content) ==
    IF NoCurrentThread THEN Reply(E00)
    ELSE LET equal_index == StrFind(content, "=", 0)
             reg         == parse_hex(StrSub(content, 1, SizeSub(equal_index, 1)))
             value       == parse_hex(StrSub(content, SizeAdd(equal_index, 1), npos))
         IN  [Reply(OK)
                 EXCEPT !.cpu = modify_reg(cpu, current_thread, reg, value),
                        !.effect.regs = RegTouched(current_thread, reg)]

\* The loop of cmd_write_memory from its a-th round: [mem, bytes, crash], the
\* memory, the guest addresses written, and whether the round threw
\* (hex_data.substr past the end) or wrote through nullptr.
RECURSIVE WriteBytes(_, _, _, _, _, _)
WriteBytes(m, address, length, hex_data, a, written) ==
    IF ToU32(a) = length THEN [mem |-> m, bytes |-> written, crash |-> FALSE]
    ELSE IF a * 2 > Len(hex_data) THEN [mem |-> m, bytes |-> written, crash |-> TRUE]
    ELSE IF get_guest_null(m, U32Add(address, ToU32(a)))
    THEN [mem |-> m, bytes |-> written \cup { U32Add(address, ToU32(a)) }, crash |-> TRUE]
    ELSE WriteBytes(Stored(m, U32Add(address, ToU32(a)),
                           ToU8(parse_hex(StrSub(hex_data, a * 2, 2)))),
                    address, length, hex_data, a + 1,
                    written \cup { U32Add(address, ToU32(a)) })

\* (address and length are bound as values, so that each is parsed once.)
cmd_write_memory(content) ==
    LET pos_first  == StrFind(content, ",", 0)
        pos_second == StrFind(content, ":", 0)
        first      == StrSub(content, 1, SizeSub(pos_first, 1))
        second     == StrSub(content, SizeAdd(pos_first, 1), SizeSub(pos_second, pos_first))
        hex_data   == StrSub(content, SizeAdd(pos_second, 1), npos)
        write(address, length) ==
            IF ~check_memory_region(address, length) THEN Reply(EAA)
            ELSE LET w == WriteBytes(mem, address, length, hex_data, 0, {})
                 IN  [Result(OK, current_thread, thread_info_index, server_die, w.crash)
                         EXCEPT !.mem = w.mem, !.effect.bytes = w.bytes]
    IN  CHOOSE r \in { write(address, length) : address \in { parse_hex(first) },
                                                length \in { parse_hex(second) } } : TRUE

\* The loop of cmd_write_binary from its a-th round, as WriteBytes; data is
\* what the pointer into the receive buffer reads from the payload on: the
\* rest of the content, then '#' and the two checksum digits, then zeros.
RECURSIVE WriteBinary(_, _, _, _, _, _)
WriteBinary(m, address, length, data, a, written) ==
    IF ToU32(a) = length THEN [mem |-> m, bytes |-> written, crash |-> FALSE]
    ELSE IF get_guest_null(m, U32Add(address, ToU32(a)))
    THEN [mem |-> m, bytes |-> written \cup { U32Add(address, ToU32(a)) }, crash |-> TRUE]
    ELSE WriteBinary(Stored(m, U32Add(address, ToU32(a)),
                            IF a + 1 <= Len(data) THEN ord(data[a + 1]) ELSE 0),
                     address, length, data, a + 1,
                     written \cup { U32Add(address, ToU32(a)) })

\* cmd_write_binary, which no entry of the table names.
cmd_write_binary(content) ==
    LET pos_first  == StrFind(content, ",", 0)
        pos_second == StrFind(content, ":", 0)
        first      == StrSub(content, 1, SizeSub(pos_first, 1))
        second     == StrSub(content, SizeAdd(pos_first, 1), SizeSub(pos_second, pos_first))
        data       == Tail_(content \o << "#" >> \o hex2(make_checksum(content)),
                            SizeAdd(pos_second, 1) + 1)
        write(address, length) ==
            IF ~check_memory_region(address, length) THEN Reply(EAA)
            ELSE LET w == WriteBinary(mem, address, length, data, 0, {})
                 IN  [Result(OK, current_thread, thread_info_index, server_die, w.crash)
                         EXCEPT !.mem = w.mem, !.effect.bytes = w.bytes]
    IN  CHOOSE r \in { write(address, length) : address \in { parse_hex(first) },
                                                length \in { parse_hex(second) } } : TRUE

\* The decimal digits std::stol consumes from index i of s: their value, -1
\* when there is none.
RECURSIVE DecRun(_, _, _)
DecRun(s, i, val) ==
    IF i > Len(s) \/ HexVal(s[i]) \notin 0..9 THEN val
    ELSE DecRun(s, i + 1, (IF val = -1 THEN 0 ELSE val * 10) + HexVal(s[i]))

\* std::stol(s): [throws, value]; it throws when s holds no number.
stol(s) ==
    LET i0  == SkipSpace(s, 1)
        neg == i0 <= Len(s) /\ s[i0] = "-"
        i1  == IF i0 <= Len(s) /\ s[i0] \in {"+", "-"} THEN i0 + 1 ELSE i0
        run == DecRun(s, i1, -1)
    IN  [throws |-> run = -1, value |-> IF neg THEN -run ELSE run]

\* The fields of a Z or z packet, as both handlers read them.
BreakpointFields(content) ==
    LET first  == StrFind(content, ",", 0)
        second == StrFind(content, ",", SizeAdd(first, 1))
    IN  [type    |-> stol(StrSub(content, 1, SizeSub(first, 1))),
         address |-> parse_hex(StrSub(content, SizeAdd(first, 1),
                                      SizeSub(SizeSub(second, 1), first))),
         kind    |-> stol(StrSub(content, SizeAdd(second, 1),
                                 SizeSub(SizeSub(Len(content), second), 1)))]

\* cmd_add_breakpoint taking kind 4 for Thumb.
cmd_add_breakpoint_ThumbIsFour(content) ==
    CHOOSE r \in { IF f.type.throws \/ f.kind.throws THEN Crash
                   ELSE IF ~is_valid_guest_addr(f.address) THEN Reply(EAA)
                   ELSE [Reply(OK) EXCEPT !.effect.calls =
                            << [fn |-> "add_breakpoint", address |-> f.address,
                                thumb |-> f.kind.value = 4] >>]
                   : f \in { BreakpointFields(content) } } : TRUE

cmd_add_breakpoint(content) ==
    CHOOSE r \in { IF f.type.throws \/ f.kind.throws THEN Crash
                   ELSE IF ~is_valid_guest_addr(f.address) THEN Reply(EAA)
                   ELSE [Reply(OK) EXCEPT !.effect.calls =
                            << [fn |-> "add_breakpoint", address |-> f.address,
                                thumb |-> f.kind.value = 2] >>]
                   : f \in { BreakpointFields(content) } } : TRUE

cmd_remove_breakpoint(content) ==
    CHOOSE r \in { IF f.type.throws \/ f.kind.throws THEN Crash
                   ELSE IF ~is_valid_guest_addr(f.address) THEN Reply(EAA)
                   ELSE [Reply(OK) EXCEPT !.effect.calls =
                            << [fn |-> "remove_breakpoint", address |-> f.address,
                                thumb |-> FALSE] >>]
                   : f \in { BreakpointFields(content) } } : TRUE

cmd_die == Result(<< >>, current_thread, thread_info_index, TRUE, FALSE)

\* The handlers that run to their end in one piece.
Simple ==
    { "cmd_unimplemented", "cmd_deprecated", "cmd_reply_empty", "cmd_reason", "cmd_kill",
      "cmd_attached", "cmd_thread_status", "cmd_supported", "cmd_continue_supported",
      "cmd_die", "cmd_set_current_thread", "cmd_get_current_thread", "cmd_thread_alive",
      "cmd_get_first_thread", "cmd_get_next_thread", "cmd_read_memory",
      "cmd_read_registers", "cmd_write_registers", "cmd_read_register",
      "cmd_write_register", "cmd_write_memory", "cmd_write_binary", "cmd_add_breakpoint",
      "cmd_remove_breakpoint" }

\* What handler fn does on content.
Run(fn, content, ub) ==
    CASE fn = "cmd_reason" -> Reply(S05)
      [] fn = "cmd_kill" -> Reply(OK)
      [] fn = "cmd_attached" -> Reply(<< "1" >>)
      [] fn = "cmd_thread_status" -> Reply(<< "T", "0" >>)
      [] fn = "cmd_supported" -> Reply(cmd_supported)
      [] fn = "cmd_continue_supported" -> Reply(cmd_continue_supported)
      [] fn = "cmd_die" -> cmd_die
      [] fn = "cmd_set_current_thread" -> cmd_set_current_thread(content)
      [] fn = "cmd_get_current_thread" -> cmd_get_current_thread
      [] fn = "cmd_thread_alive" -> cmd_thread_alive(content)
      [] fn = "cmd_get_first_thread" -> cmd_get_first_thread(ub)
      [] fn = "cmd_get_next_thread" -> cmd_get_next_thread(ub)
      [] fn = "cmd_read_memory" -> cmd_read_memory(content)
      [] fn = "cmd_read_registers" -> cmd_read_registers
      [] fn = "cmd_write_registers" -> cmd_write_registers(content)
      [] fn = "cmd_read_register" -> cmd_read_register(content)
      [] fn = "cmd_write_register" -> cmd_write_register(content)
      [] fn = "cmd_write_memory" -> cmd_write_memory(content)
      [] fn = "cmd_write_binary" -> cmd_write_binary(content)
      [] fn = "cmd_add_breakpoint" -> cmd_add_breakpoint(content)
      [] fn = "cmd_remove_breakpoint" -> cmd_remove_breakpoint(content)
      [] OTHER -> Reply(<< >>)

\* The handlers that take kernel.mutex (a lock_guard for the whole handler).
LocksKernel(fn) ==
    fn \in { "cmd_set_current_thread", "cmd_thread_alive", "cmd_get_first_thread",
             "cmd_get_next_thread", "cmd_read_registers", "cmd_write_registers",
             "cmd_read_register", "cmd_write_register" }

\* The handlers that read or write guest registers, guest memory, breakpoints
\* or the thread table.
TouchesGuest(fn) ==
    fn \in { "cmd_set_current_thread", "cmd_thread_alive", "cmd_get_first_thread",
             "cmd_get_next_thread", "cmd_read_registers", "cmd_write_registers",
             "cmd_read_register", "cmd_write_register", "cmd_read_memory",
             "cmd_write_memory", "cmd_write_binary", "cmd_add_breakpoint",
             "cmd_remove_breakpoint", "cmd_continue" }

(***************************************************************************)
(* The session loop: server_listen and server_next                         *)
(***************************************************************************)

\* How many recv() calls return data in a run.
MaxReads == 2

\* send() on the client socket: the bytes reach the client while it is open.
Send(bytes) == IF client_socket = "open" THEN sent \o bytes ELSE sent

\* The index (0-based) of the first '#' after position p of buf that has two
\* bytes after it, -1 when there is none.
HashIndex(buf, p) ==
    LET hits == { i \in (p + 1)..(Len(buf) - 3) : buf[i + 1] = "#" }
    IN  IF hits = {} THEN -1 ELSE CHOOSE i \in hits : \A j \in hits : i <= j

\* The packet at the scan position: from '$' to the second byte after '#'.
packet_len == (HashIndex(recv_buffer, pos) + 3) - pos

packet_data == SubSeq(recv_buffer, pos + 1, pos + packet_len)

\* The GDBState fields a packet may change.
Fields ==
    [last_reply |-> last_reply, current_thread |-> current_thread,
     inferior_thread |-> inferior_thread, thread_info_index |-> thread_info_index,
     server_die |-> server_die]

\* A recv() that another thread could make while the server polls in phase 2.
Recv_WhilePolling(chunk) ==
    /\ pc \in { "select", "p2_lock" }
    /\ ~server_die
    /\ client_socket = "open"
    /\ reads < MaxReads
    /\ recv_buffer' = recv_buffer \o chunk
    /\ pos' = 0
    /\ reads' = reads + 1
    /\ inbound' = inbound \o chunk
    /\ pc' = "scan"
    /\ UNCHANGED << gdbVars, it, command, sent, kernelVars, histVars, guestVars >>

\* recv() returns the bytes of chunk, which are appended to the buffer.
Recv(chunk) ==
    /\ pc = "select"
    /\ ~server_die
    /\ client_socket = "open"
    /\ reads < MaxReads
    /\ recv_buffer' = recv_buffer \o chunk
    /\ pos' = 0
    /\ reads' = reads + 1
    /\ inbound' = inbound \o chunk
    /\ pc' = "scan"
    /\ UNCHANGED << gdbVars, it, command, sent, kernelVars, histVars, guestVars >>

\* recv() returns 0 or less: the client is gone.
RecvClosed ==
    /\ pc = "select"
    /\ ~server_die
    /\ pc' = "closing"
    /\ UNCHANGED << gdbVars, recv_buffer, command, pos, it, wireVars, kernelVars, histVars,
                    guestVars >>

\* The select loop sees server_die.
SelectDie ==
    /\ pc = "select"
    /\ server_die
    /\ pc' = "closing"
    /\ UNCHANGED << gdbVars, recv_buffer, command, pos, it, wireVars, kernelVars, histVars,
                    guestVars >>

\* A '+' at the scan position.
ScanPlus ==
    /\ pc = "scan"
    /\ pos < Len(recv_buffer)
    /\ recv_buffer[pos + 1] = "+"
    /\ pos' = pos + 1
    /\ UNCHANGED << gdbVars, pc, recv_buffer, command, it, wireVars, kernelVars, histVars,
                    guestVars >>

\* A '-' at the scan position: the last reply is sent again.
ScanNack ==
    /\ pc = "scan"
    /\ pos < Len(recv_buffer)
    /\ recv_buffer[pos + 1] = "-"
    /\ sent' = Send(Framed(last_reply))
    /\ pos' = pos + 1
    /\ UNCHANGED << gdbVars, pc, recv_buffer, command, it, reads, inbound, kernelVars, histVars,
                    guestVars >>

\* ScanSkip that refuses the byte with a '-'.
ScanSkip_Nacks ==
    /\ pc = "scan"
    /\ pos < Len(recv_buffer)
    /\ recv_buffer[pos + 1] \notin { "+", "-", "$" }
    /\ sent' = Send(<< "-" >>)
    /\ pos' = pos + 1
    /\ UNCHANGED << gdbVars, pc, recv_buffer, command, it, reads, inbound, kernelVars, histVars,
                    guestVars >>

\* Any other byte outside a packet is skipped.
ScanSkip ==
    /\ pc = "scan"
    /\ pos < Len(recv_buffer)
    /\ recv_buffer[pos + 1] \notin { "+", "-", "$" }
    /\ pos' = pos + 1
    /\ UNCHANGED << gdbVars, pc, recv_buffer, command, it, wireVars, kernelVars, histVars,
                    guestVars >>

\* ScanAck without the server_ack('+').
ScanAck_NoAck ==
    /\ pc = "scan"
    /\ pos < Len(recv_buffer)
    /\ recv_buffer[pos + 1] = "$"
    /\ HashIndex(recv_buffer, pos) # -1
    /\ mark' = Len(sent)
    /\ snap' = Fields
    /\ invoked' = ""
    /\ pc' = "parse"
    /\ \E data \in { packet_data } : command' = parse_command(data)
    /\ UNCHANGED << gdbVars, recv_buffer, pos, it, wireVars, kernelVars, last_emitted,
                    observed, access, guestVars >>

\* A '$' with its '#' and two more bytes in the buffer: the packet is
\* acknowledged, then parsed.
ScanAck ==
    /\ pc = "scan"
    /\ pos < Len(recv_buffer)
    /\ recv_buffer[pos + 1] = "$"
    /\ HashIndex(recv_buffer, pos) # -1
    /\ sent' = Send(<< "+" >>)
    /\ mark' = Len(sent)
    /\ snap' = Fields
    /\ invoked' = ""
    /\ pc' = "parse"
    /\ \E data \in { packet_data } : command' = parse_command(data)
    /\ UNCHANGED << gdbVars, recv_buffer, pos, it, reads, inbound, kernelVars, last_emitted,
                    observed, access, guestVars >>

\* ScanEnd that drops the bytes of a packet that is not complete as well.
ScanEnd_DropsAll ==
    /\ pc = "scan"
    /\ \/ pos >= Len(recv_buffer)
       \/ /\ pos < Len(recv_buffer)
          /\ recv_buffer[pos + 1] = "$"
          /\ HashIndex(recv_buffer, pos) = -1
    /\ recv_buffer' = << >>
    /\ pos' = 0
    /\ pc' = IF server_die THEN "closing" ELSE "select"
    /\ UNCHANGED << gdbVars, it, command, wireVars, kernelVars, histVars, guestVars >>

\* The scan ends, at the end of the buffer or at a packet that is not complete:
\* the consumed bytes are dropped and server_listen tests its loop condition.
ScanEnd ==
    /\ pc = "scan"
    /\ \/ pos >= Len(recv_buffer)
       \/ /\ pos < Len(recv_buffer)
          /\ recv_buffer[pos + 1] = "$"
          /\ HashIndex(recv_buffer, pos) = -1
    /\ recv_buffer' = Tail_(recv_buffer, pos + 1)
    /\ pos' = 0
    /\ pc' = IF server_die THEN "closing" ELSE "select"
    /\ UNCHANGED << gdbVars, it, command, wireVars, kernelVars, histVars, guestVars >>

\* The packet does not parse or its checksum is wrong.
ParseInvalid ==
    /\ pc = "parse"
    /\ ~command.is_valid
    /\ sent' = Send(<< "-" >>)
    /\ pc' = "advance"
    /\ UNCHANGED << gdbVars, recv_buffer, command, pos, it, reads, inbound, kernelVars, histVars,
                    guestVars >>

\* No entry of the table matches: the reply is empty.
DispatchUnknown ==
    /\ pc = "parse"
    /\ command.is_valid
    /\ FoundFunction(command.content) = ""
    /\ last_reply' = << >>
    /\ sent' = Send(Framed(<< >>))
    /\ last_emitted' = IF client_socket = "open" THEN << >> ELSE last_emitted
    /\ pc' = "advance"
    /\ UNCHANGED << server_die, client_socket, current_thread, inferior_thread,
                    thread_info_index, recv_buffer, command, pos, it, reads, inbound, kernelVars, mark, snap,
                    invoked, observed, access, guestVars >>

\* A handler other than cmd_continue is called and returns.  One that takes
\* kernel.mutex waits for it.
DispatchSimple(ub) ==
    /\ pc = "parse"
    /\ command.is_valid
    /\ FoundFunction(command.content) \in Simple
    /\ \E fn \in { FoundFunction(command.content) } :
       \E res \in { Run(fn, command.content, ub) } :
          /\ LocksKernel(fn) => kmutex = "free"
          /\ invoked' = fn
          /\ access' = IF TouchesGuest(fn)
                       THEN [fn |-> fn,
                             kmutex |-> IF LocksKernel(fn) THEN "server" ELSE kmutex]
                       ELSE access
          /\ cpu' = res.cpu
          /\ mem' = res.mem
          /\ effect' = res.effect
          /\ IF res.crash
             THEN /\ pc' = "terminated"
                  /\ UNCHANGED << last_reply, current_thread, thread_info_index, server_die >>
             ELSE /\ pc' = "reply"
                  /\ last_reply' = res.reply
                  /\ current_thread' = res.cur
                  /\ thread_info_index' = res.idx
                  /\ server_die' = res.die
    /\ UNCHANGED << client_socket, inferior_thread, recv_buffer, command, pos, it, wireVars,
                    kernelVars, mark, snap, last_emitted, observed >>

\* The handler has returned: its reply is sent unless server_die is set.
SendReply ==
    /\ pc = "reply"
    /\ sent' = IF server_die THEN sent ELSE Send(Framed(last_reply))
    /\ last_emitted' = IF ~server_die /\ client_socket = "open" THEN last_reply
                       ELSE last_emitted
    /\ pc' = "advance"
    /\ UNCHANGED << gdbVars, recv_buffer, command, pos, it, reads, inbound, kernelVars, mark, snap, invoked,
                    observed, access, guestVars >>

\* The scan moves past the packet.
Advance ==
    /\ pc = "advance"
    /\ pos' = pos + packet_len
    /\ pc' = "scan"
    /\ UNCHANGED << gdbVars, recv_buffer, command, it, wireVars, kernelVars, histVars,
                    guestVars >>

\* server_close at the end of server_listen.
ServerClose ==
    /\ pc = "closing"
    /\ client_socket' = "BAD_SOCK"
    /\ server_die' = TRUE
    /\ pc' = "closed"
    /\ UNCHANGED << last_reply, current_thread, inferior_thread, thread_info_index,
                    recv_buffer, command, pos, it, wireVars, kernelVars, histVars,
                    guestVars >>

\* server_close called by the emulator, on another thread.
Shutdown ==
    /\ pc \notin { "closing", "closed", "terminated" }
    /\ client_socket = "open"
    /\ client_socket' = "BAD_SOCK"
    /\ server_die' = TRUE
    /\ UNCHANGED << last_reply, current_thread, inferior_thread, thread_info_index,
                    loopVars, wireVars, kernelVars, histVars, guestVars >>

(***************************************************************************)
(* The guest: the kernel's threads, as the server sees them                *)
(***************************************************************************)

SetThread(t, st, td, h) == [threads EXCEPT ![t] = ThreadState(st, td, h)]

Running == { t \in DOMAIN threads : threads[t].status = "run" }

\* thread->resume(step): a suspended thread is told to run or to step.
Resumed(t, step) ==
    IF threads[t].status = "suspend"
    THEN [threads EXCEPT ![t].to_do = IF step THEN "step" ELSE "run"]
    ELSE threads

\* thread->suspend(): a running thread is told to stop.
Suspended(t) ==
    IF threads[t].status = "run"
    THEN [threads EXCEPT ![t].to_do = "suspend"]
    ELSE threads

\* Guest code, on a running thread, takes kernel.mutex.
KernelLock ==
    /\ kmutex = "free"
    /\ Running # {}
    /\ kmutex' = "guest"
    /\ UNCHANGED << gdbVars, loopVars, wireVars, threads, next_uid, histVars, guestVars >>

\* Guest code releases kernel.mutex.
KernelUnlock ==
    /\ kmutex = "guest"
    /\ kmutex' = "free"
    /\ UNCHANGED << gdbVars, loopVars, wireVars, threads, next_uid, histVars, guestVars >>

\* Under kernel.mutex, guest code creates a thread, dormant, with a fresh id.
CreateThread ==
    /\ kmutex = "guest"
    /\ Running # {}
    /\ next_uid \in TIDS
    /\ threads' = [t \in DOMAIN threads \cup { next_uid } |->
                     IF t = next_uid THEN ThreadState("dormant", "wait", FALSE)
                     ELSE threads[t]]
    /\ next_uid' = next_uid + 1
    /\ UNCHANGED << gdbVars, loopVars, wireVars, kmutex, histVars, guestVars >>

\* Under kernel.mutex, guest code removes a dormant thread from the table.
DeleteThread(t) ==
    /\ kmutex = "guest"
    /\ Running # {}
    /\ t \in DOMAIN threads
    /\ threads[t].status = "dormant"
    /\ threads' = [u \in DOMAIN threads \ { t } |-> threads[u]]
    /\ UNCHANGED << gdbVars, loopVars, wireVars, next_uid, kmutex, histVars, guestVars >>

\* A thread told to run or to step starts running.
GuestRun(t) ==
    /\ t \in DOMAIN threads
    /\ threads[t].status = "suspend"
    /\ threads[t].to_do \in { "run", "step" }
    /\ threads' = SetThread(t, "run", IF threads[t].to_do = "step" THEN "step" ELSE "wait",
                            FALSE)
    /\ UNCHANGED << gdbVars, loopVars, wireVars, next_uid, kmutex, histVars, guestVars >>

\* A stepping thread has run its instruction.
GuestStepDone(t) ==
    /\ t \in DOMAIN threads
    /\ threads[t].status = "run"
    /\ threads[t].to_do = "step"
    /\ threads' = SetThread(t, "suspend", "wait", FALSE)
    /\ UNCHANGED << gdbVars, loopVars, wireVars, next_uid, kmutex, histVars, guestVars >>

\* A running thread told to stop stops.
GuestSuspend(t) ==
    /\ t \in DOMAIN threads
    /\ threads[t].status = "run"
    /\ threads[t].to_do = "suspend"
    /\ threads' = SetThread(t, "suspend", "wait", FALSE)
    /\ UNCHANGED << gdbVars, loopVars, wireVars, next_uid, kmutex, histVars, guestVars >>

\* A running thread reaches a breakpoint.
GuestBreak(t) ==
    /\ t \in DOMAIN threads
    /\ threads[t].status = "run"
    /\ threads' = SetThread(t, "suspend", "wait", TRUE)
    /\ UNCHANGED << gdbVars, loopVars, wireVars, next_uid, kmutex, histVars, guestVars >>

\* A running thread exits.
GuestExit(t) ==
    /\ t \in DOMAIN threads
    /\ threads[t].status = "run"
    /\ threads' = SetThread(t, "dormant", "wait", FALSE)
    /\ UNCHANGED << gdbVars, loopVars, wireVars, next_uid, kmutex, histVars, guestVars >>

\* Under kernel.mutex, guest code starts a dormant thread.
GuestStart(t) ==
    /\ kmutex = "guest"
    /\ Running # {}
    /\ t \in DOMAIN threads
    /\ threads[t].status = "dormant"
    /\ threads' = SetThread(t, "run", "wait", FALSE)
    /\ UNCHANGED << gdbVars, loopVars, wireVars, next_uid, kmutex, histVars, guestVars >>

(***************************************************************************)
(* The execution controller: cmd_continue                                  *)
(***************************************************************************)

\* The action letter cmd_continue acts on: its loop reads the action after
\* each ';' from index 5 of the content and stops at the first that is one of
\* c, C, s, S.  "" when it finds none and returns the empty reply; "throw"
\* when content.substr is called past the end of the content.
RECURSIVE VContScan(_, _)
VContScan(content, index) ==
    LET next == Find(content, ";", index + 2) - 1
        cmd  == IF index + 1 < Len(content) THEN content[index + 2] ELSE "x00"
    IN  IF index + 1 > Len(content) THEN "throw"
        ELSE IF cmd \in { "c", "C", "s", "S" } THEN cmd
        ELSE IF next = -1 THEN ""
        ELSE VContScan(content, next)

VContCmd(content) == VContScan(content, 5)

IsStep(content) == VContCmd(content) \in { "s", "S" }

\* The iterator after the element with key k.  The element may have been
\* erased while kernel.mutex was released; the iterator then dangles and what
\* ++ gives is anything.
NextIt(k) ==
    IF k \in DOMAIN threads THEN { NextThread(threads, k) }
    ELSE DOMAIN threads \cup { 0 }

Begin == IF DOMAIN threads = {} THEN 0 ELSE FirstThread(threads)

\* Phase 2 has chosen no thread.
NoObservation ==
    [tid |-> 0, status |-> "", hit |-> FALSE, kmutex |-> "", skipped |-> {}, keys |-> {}]

\* The handler is entered and reads its action.
ContBegin ==
    LET cmd == VContCmd(command.content)
    IN  /\ pc = "parse"
        /\ command.is_valid
        /\ FoundFunction(command.content) = "cmd_continue"
        /\ invoked' = "cmd_continue"
        /\ observed' = NoObservation
        /\ IF cmd = "throw" THEN pc' = "terminated" /\ UNCHANGED last_reply
           ELSE IF cmd = "" THEN pc' = "reply" /\ last_reply' = << >>
           ELSE IF inferior_thread # 0 THEN pc' = "inferior" /\ UNCHANGED last_reply
           ELSE IF cmd \in { "s", "S" } THEN pc' = "finish" /\ UNCHANGED last_reply
           ELSE pc' = "p1_lock" /\ UNCHANGED last_reply
        /\ UNCHANGED << server_die, client_socket, current_thread, inferior_thread,
                        thread_info_index, recv_buffer, command, pos, it, wireVars, kernelVars, mark,
                        snap, last_emitted, access, guestVars >>

\* inferior_thread != 0: under kernel.mutex and the thread's mutex the thread is
\* resumed; a step then waits on the thread's mutex, kernel.mutex still held,
\* until the thread is suspended.  threads[inferior_thread] of an id that is
\* not in the table adds a null entry, and the call through it ends the process.
ResumeInferior ==
    LET step == IsStep(command.content)
    IN  /\ pc = "inferior"
        /\ kmutex = "free"
        /\ access' = [fn |-> "cmd_continue", kmutex |-> "server"]
        /\ IF inferior_thread \notin DOMAIN threads
           THEN /\ pc' = "terminated"
                /\ kmutex' = "server"
                /\ UNCHANGED threads
           ELSE /\ threads' = Resumed(inferior_thread, step)
                /\ IF ~step THEN pc' = "p1_lock" /\ UNCHANGED kmutex
                   ELSE IF threads[inferior_thread].status = "suspend"
                   THEN pc' = "finish" /\ UNCHANGED kmutex
                   ELSE pc' = "step_wait" /\ kmutex' = "server"
        /\ UNCHANGED << gdbVars, recv_buffer, command, pos, it, wireVars, next_uid, mark, snap,
                        invoked, last_emitted, observed, guestVars >>

\* The step's wait ends: the thread is suspended.
StepWake ==
    /\ pc = "step_wait"
    /\ threads[inferior_thread].status = "suspend"
    /\ kmutex' = "free"
    /\ pc' = "finish"
    /\ UNCHANGED << gdbVars, recv_buffer, command, pos, it, wireVars, threads, next_uid,
                    histVars, guestVars >>

\* Phase 1, resume the world: kernel.mutex is taken and the loop starts.
P1Lock ==
    /\ pc = "p1_lock"
    /\ kmutex = "free"
    /\ kmutex' = "server"
    /\ it' = Begin
    /\ pc' = "p1_visit"
    /\ UNCHANGED << gdbVars, recv_buffer, command, pos, wireVars, threads, next_uid, histVars,
                    guestVars >>

\* Phase 1 at a thread: a suspended one is to be resumed, with kernel.mutex
\* released for the call; at the end the mutex is released.
P1Visit ==
    /\ pc = "p1_visit"
    /\ access' = [fn |-> "cmd_continue", kmutex |-> kmutex]
    /\ IF it = 0 THEN /\ kmutex' = "free"
                      /\ pc' = "p2_lock"
                      /\ UNCHANGED it
       ELSE IF threads[it].status = "suspend"
       THEN /\ kmutex' = "free"
            /\ pc' = "p1_resume"
            /\ UNCHANGED it
       ELSE /\ it' = NextThread(threads, it)
            /\ UNCHANGED << kmutex, pc >>
    /\ UNCHANGED << gdbVars, recv_buffer, command, pos, wireVars, threads, next_uid, mark,
                    snap, invoked, last_emitted, observed, guestVars >>

\* Phase 1: thread->resume(), with no mutex held.  The thread is a reference
\* into the table; through an erased element the call ends the process or
\* does nothing.
P1Resume ==
    /\ pc = "p1_resume"
    /\ access' = [fn |-> "cmd_continue", kmutex |-> kmutex]
    /\ IF it \in DOMAIN threads
       THEN threads' = Resumed(it, FALSE) /\ pc' = "p1_relock"
       ELSE /\ UNCHANGED threads
            /\ \/ pc' = "terminated"
               \/ pc' = "p1_relock"
    /\ UNCHANGED << gdbVars, recv_buffer, command, pos, it, wireVars, next_uid, kmutex, mark,
                    snap, invoked, last_emitted, observed, guestVars >>

\* Whether the thread the phase 1 wait looks at has left suspend; through an
\* erased element the read gives anything.
LeftSuspend(t) == IF t \in DOMAIN threads THEN threads[t].status # "suspend" ELSE TRUE

\* (A thread changes its status under its own mutex, which the controller
\* holds only inside ResumeInferior and inside one visit of phase 2: each of
\* those is one step here, so the thread's mutex is free between steps.)

\* Phase 1: kernel.mutex is taken again and the wait begins: it goes on at once
\* when the thread has left suspend, and releases the mutex and blocks when not.
P1Relock ==
    /\ pc = "p1_relock"
    /\ kmutex = "free"
    /\ \/ /\ LeftSuspend(it)
          /\ kmutex' = "server"
          /\ it' \in NextIt(it)
          /\ pc' = "p1_visit"
       \/ /\ IF it \in DOMAIN threads THEN threads[it].status = "suspend" ELSE TRUE
          /\ pc' = "p1_wait"
          /\ UNCHANGED << kmutex, it >>
    /\ UNCHANGED << gdbVars, recv_buffer, command, pos, wireVars, threads, next_uid, histVars,
                    guestVars >>

\* Phase 1: the wait is over when the controller, woken, finds the thread not
\* suspended.
P1Wake ==
    /\ pc = "p1_wait"
    /\ kmutex = "free"
    /\ LeftSuspend(it)
    /\ kmutex' = "server"
    /\ it' \in NextIt(it)
    /\ pc' = "p1_visit"
    /\ UNCHANGED << gdbVars, recv_buffer, command, pos, wireVars, threads, next_uid, histVars,
                    guestVars >>

\* P2Lock that answers a shutdown with a stop reply.
P2Lock_RepliesStop ==
    /\ pc = "p2_lock"
    /\ kmutex = "free"
    /\ IF server_die
       THEN /\ last_reply' = S05
            /\ pc' = "reply"
            /\ UNCHANGED << kmutex, it, observed >>
       ELSE /\ kmutex' = "server"
            /\ it' = Begin
            /\ observed' = [observed EXCEPT !.skipped = {}]
            /\ pc' = "p2_visit"
            /\ UNCHANGED last_reply
    /\ UNCHANGED << server_die, client_socket, current_thread, inferior_thread,
                    thread_info_index, recv_buffer, command, pos, wireVars, threads, next_uid,
                    mark, snap, invoked, last_emitted, access, guestVars >>

\* Phase 2, one poll: kernel.mutex is taken; with server_die set the handler
\* returns the empty reply.
P2Lock ==
    /\ pc = "p2_lock"
    /\ kmutex = "free"
    /\ IF server_die
       THEN /\ last_reply' = << >>
            /\ pc' = "reply"
            /\ UNCHANGED << kmutex, it, observed >>
       ELSE /\ kmutex' = "server"
            /\ it' = Begin
            /\ observed' = [observed EXCEPT !.skipped = {}]
            /\ pc' = "p2_visit"
            /\ UNCHANGED last_reply
    /\ UNCHANGED << server_die, client_socket, current_thread, inferior_thread,
                    thread_info_index, recv_buffer, command, pos, wireVars, threads, next_uid,
                    mark, snap, invoked, last_emitted, access, guestVars >>

\* P2Visit without the test of hit_breakpoint.
P2Visit_AnySuspended ==
    /\ pc = "p2_visit"
    /\ access' = [fn |-> "cmd_continue", kmutex |-> kmutex]
    /\ IF it = 0
       THEN /\ kmutex' = "free"
            /\ pc' = "p2_lock"
            /\ UNCHANGED << it, inferior_thread, observed >>
       ELSE IF threads[it].status = "suspend"
       THEN /\ inferior_thread' = it
            /\ observed' = [observed EXCEPT !.tid = it, !.status = threads[it].status,
                                            !.hit = threads[it].hit, !.kmutex = kmutex,
                                            !.keys = DOMAIN threads]
            /\ kmutex' = "free"
            /\ pc' = "p2_found"
            /\ UNCHANGED it
       ELSE /\ it' = NextThread(threads, it)
            /\ observed' = [observed EXCEPT !.skipped = @ \cup { it }]
            /\ UNCHANGED << kmutex, pc, inferior_thread >>
    /\ UNCHANGED << server_die, client_socket, last_reply, current_thread, thread_info_index,
                    recv_buffer, command, pos, wireVars, threads, next_uid, mark, snap,
                    invoked, last_emitted, guestVars >>

\* Phase 2 at a thread, under its mutex: a suspended thread that hit a
\* breakpoint becomes inferior_thread and ends the polling; at the end of the
\* table the mutex is released and the poll sleeps.
P2Visit ==
    /\ pc = "p2_visit"
    /\ access' = [fn |-> "cmd_continue", kmutex |-> kmutex]
    /\ IF it = 0
       THEN /\ kmutex' = "free"
            /\ pc' = "p2_lock"
            /\ UNCHANGED << it, inferior_thread, observed >>
       ELSE IF threads[it].status = "suspend" /\ threads[it].hit
       THEN /\ inferior_thread' = it
            /\ observed' = [observed EXCEPT !.tid = it, !.status = threads[it].status,
                                            !.hit = threads[it].hit, !.kmutex = kmutex,
                                            !.keys = DOMAIN threads]
            /\ kmutex' = "free"
            /\ pc' = "p2_found"
            /\ UNCHANGED it
       ELSE /\ it' = NextThread(threads, it)
            /\ observed' = [observed EXCEPT !.skipped = @ \cup { it }]
            /\ UNCHANGED << kmutex, pc, inferior_thread >>
    /\ UNCHANGED << server_die, client_socket, last_reply, current_thread, thread_info_index,
                    recv_buffer, command, pos, wireVars, threads, next_uid, mark, snap,
                    invoked, last_emitted, guestVars >>

\* After the poll: get_thread(inferior_thread) and the log of its pc and lr,
\* with no mutex held.  A thread that is gone gives a null pointer, and the
\* read through it ends the process.
LogBreak ==
    /\ pc = "p2_found"
    /\ access' = [fn |-> "cmd_continue", kmutex |-> kmutex]
    /\ pc' = IF inferior_thread \in DOMAIN threads THEN "p3_lock" ELSE "terminated"
    /\ UNCHANGED << gdbVars, recv_buffer, command, pos, it, wireVars, kernelVars, mark, snap, invoked,
                    last_emitted, observed, guestVars >>

\* Phase 3, stop the world: kernel.mutex is taken and the loop starts.
P3Lock ==
    /\ pc = "p3_lock"
    /\ kmutex = "free"
    /\ kmutex' = "server"
    /\ it' = Begin
    /\ pc' = "p3_visit"
    /\ UNCHANGED << gdbVars, recv_buffer, command, pos, wireVars, threads, next_uid, histVars,
                    guestVars >>

\* Phase 3 at a thread: a running one is told to stop and the controller waits,
\* kernel.mutex released by the wait, until it is suspended or dormant.
P3Visit ==
    /\ pc = "p3_visit"
    /\ access' = [fn |-> "cmd_continue", kmutex |-> kmutex]
    /\ IF it = 0
       THEN /\ kmutex' = "free"
            /\ pc' = "finish"
            /\ UNCHANGED << it, threads >>
       ELSE IF threads[it].status = "run"
       THEN /\ threads' = Suspended(it)
            /\ kmutex' = "free"
            /\ pc' = "p3_wait"
            /\ UNCHANGED it
       ELSE /\ it' = NextThread(threads, it)
            /\ UNCHANGED << kmutex, pc, threads >>
    /\ UNCHANGED << gdbVars, recv_buffer, command, pos, wireVars, next_uid, mark, snap,
                    invoked, last_emitted, observed, guestVars >>

\* Phase 3: the wait is over when the controller, woken, finds the thread
\* suspended or dormant.  The thread is held by a copy of its pointer, so it
\* can be read even when its element was erased.
P3Wake ==
    /\ pc = "p3_wait"
    /\ kmutex = "free"
    /\ IF it \in DOMAIN threads THEN threads[it].status \in { "suspend", "dormant" }
       ELSE TRUE
    /\ kmutex' = "server"
    /\ it' \in NextIt(it)
    /\ pc' = "p3_visit"
    /\ UNCHANGED << gdbVars, recv_buffer, command, pos, wireVars, threads, next_uid, histVars,
                    guestVars >>

\* The end of a step or of continue-all: current_thread is the inferior
\* thread and the reply is S05.
ContFinish ==
    /\ pc = "finish"
    /\ current_thread' = inferior_thread
    /\ last_reply' = S05
    /\ pc' = "reply"
    /\ UNCHANGED << server_die, client_socket, inferior_thread, thread_info_index,
                    recv_buffer, command, pos, it, wireVars, kernelVars, histVars,
                    guestVars >>

(***************************************************************************)
(* The client and the specifications                                       *)
(***************************************************************************)

\* The packet a client sends for body.
Pkt(body) == << "$" >> \o body \o << "#" >> \o hex2(make_checksum(body))

\* What the client's writes deliver to one recv() of a session without vCont.
FramerChunks ==
    { Pkt(<< "?" >>),
      Pkt(<< "k" >>) \o << "-" >> \o Pkt(<< "?" >>),
      << "$", "?", "#", "0", "0" >>,
      << "$", "H", "g", "2", "#", "0", "0" >>,
      << "-" >>,
      << "+", "x" >>,
      << "$", "?" >>,
      << "#", "3", "f" >>,
      << "$", "#", "0", "0" >>,
      Pkt(<< "H", "g", "0" >>),
      Pkt(<< "q", "C" >>),
      Pkt(<< "q", "f", "T", "h", "r", "e", "a", "d", "I", "n", "f", "o" >>),
      Pkt(<< "q", "s", "T", "h", "r", "e", "a", "d", "I", "n", "f", "o" >>),
      Pkt(<< "m", "1", "0", "0", "0", "0", ",", "2" >>),
      Pkt(<< "D" >>) }

VContC == << "v", "C", "o", "n", "t", ";", "c" >>

VContS == << "v", "C", "o", "n", "t", ";", "s" >>

\* What the client's writes deliver to one recv() of a session that runs the
\* guest.
CtlChunks ==
    { Pkt(VContC),
      Pkt(VContS) \o Pkt(VContS),
      << "+", "x", "-", "$", "?", "#", "0", "0" >> \o Pkt(<< "D" >>)
          \o Pkt(<< "m", "1", "0", "0", "0", "0", ",", "2" >>) }

\* The guest a session starts with: every register of thread t holds a value
\* of its own, whose four bytes differ; no byte has been written.
InitialRegs(t) == [n \in Regs |-> U32(4608 + t, 13312 + n)]

\* The guest with its ELF loaded at base and the page table in use or not.
GuestInitAt(base, paged) ==
    /\ cpu = [t \in TIDS |-> InitialRegs(t)]
    /\ mem = [elf_base |-> base, use_page_table |-> paged, bytes |-> << >>]
    /\ effect = NoEffect

GuestInit == GuestInitAt(U32Zero, FALSE)

\* The debugger state a session starts with: no reply yet, no thread chosen.
GDBStateInit ==
    /\ server_die = FALSE
    /\ last_reply = << >>
    /\ current_thread = -1
    /\ inferior_thread = 0
    /\ thread_info_index = 0

\* The debugger and the server thread after accept(), before the first recv().
ServerInit ==
    /\ GDBStateInit
    /\ client_socket = "open"
    /\ pc = "select"
    /\ recv_buffer = << >>
    /\ command = [is_valid |-> FALSE, content |-> << >>]
    /\ pos = 0
    /\ it = 0
    /\ sent = << >>
    /\ reads = 0
    /\ inbound = << >>
    /\ kmutex = "free"
    /\ mark = 0
    /\ snap = Fields
    /\ invoked = ""
    /\ last_emitted = << "none" >>
    /\ observed = NoObservation
    /\ access = [fn |-> "", kmutex |-> ""]

\* The server after accept(), before the first recv().
InitServer ==
    /\ ServerInit
    /\ GuestInit

\* A client connects while the guest is stopped: no thread yet, or threads 1
\* and 2, suspended.
Init ==
    /\ InitServer
    /\ \/ threads = << >> /\ next_uid = 1
       \/ /\ threads = [t \in { 1, 2 } |-> ThreadState("suspend", "wait", FALSE)]
          /\ next_uid = 3

ClientSend == \E chunk \in FramerChunks : Recv(chunk)

Dispatch == \E ub \in Garbage : DispatchSimple(ub)

\* The steps of server_next that every packet takes.
PacketLoop ==
    \/ SelectDie
    \/ ScanAck
    \/ ScanEnd
    \/ SendReply
    \/ Advance
    \/ ServerClose

\* The steps of the server thread outside cmd_continue.
Session ==
    \/ PacketLoop
    \/ ScanPlus
    \/ ScanNack
    \/ ScanSkip
    \/ ParseInvalid
    \/ DispatchUnknown
    \/ Dispatch

Next ==
    \/ ClientSend
    \/ RecvClosed
    \/ Session
    \/ Shutdown

\* A session of a client that sends no vCont, the guest stopped.
Spec == Init /\ [][Next]_vars

\* A client connects while the guest is stopped: threads 1 and 2, each
\* suspended or dormant.
InitCtl ==
    /\ InitServer
    /\ threads \in [{ 1, 2 } -> { ThreadState("suspend", "wait", FALSE),
                                  ThreadState("dormant", "wait", FALSE) }]
    /\ next_uid = 3

ClientSendCtl == \E chunk \in CtlChunks : Recv(chunk)

\* cmd_continue on the action c.
ContinueAll ==
    \/ ContBegin
    \/ P1Lock
    \/ P1Visit
    \/ P1Resume
    \/ P1Relock
    \/ P1Wake
    \/ P2Lock
    \/ P2Visit
    \/ LogBreak
    \/ P3Lock
    \/ P3Visit
    \/ P3Wake
    \/ ContFinish

Controller ==
    \/ ContinueAll
    \/ ResumeInferior
    \/ StepWake

\* What a guest thread does by itself once it is told to: start, stop.
GuestObeys(t) == GuestRun(t) \/ GuestSuspend(t)

\* The guest while threads run freely.
GuestRuns ==
    \/ KernelLock
    \/ KernelUnlock
    \/ CreateThread
    \/ \E t \in TIDS : DeleteThread(t)
    \/ \E t \in TIDS : GuestObeys(t)
    \/ \E t \in TIDS : GuestBreak(t)
    \/ \E t \in TIDS : GuestExit(t)
    \/ \E t \in TIDS : GuestStart(t)

Guest ==
    \/ GuestRuns
    \/ \E t \in TIDS : GuestStepDone(t)

NextCtl ==
    \/ ClientSendCtl
    \/ RecvClosed
    \/ Session
    \/ Shutdown
    \/ Controller
    \/ Guest

\* A session that runs the guest.
SpecCtl == InitCtl /\ [][NextCtl]_vars

\* The client sends one vCont;c and waits for the stop reply.
ClientContinue == reads = 0 /\ Recv(Pkt(VContC))

NextContinue ==
    \/ ClientContinue
    \/ RecvClosed
    \/ PacketLoop
    \/ Shutdown
    \/ ContinueAll
    \/ GuestRuns

\* The session of a client that sends one vCont;c.
SpecContinue == InitCtl /\ [][NextContinue]_vars

\* That session under fair scheduling: the server thread runs whenever it can
\* again and again, a guest thread does what it was told, and guest code
\* that took kernel.mutex releases it.
SpecContinueFair ==
    /\ SpecContinue
    /\ SF_vars(PacketLoop \/ ContinueAll)
    /\ WF_vars(KernelUnlock)
    /\ \A t \in TIDS : WF_vars(GuestObeys(t))

\* How long a body the client of SpecFrame sends.
MaxBody == 2

\* The bytes of those bodies: none is "$" or "#"; two are above 0x7f; "D" is the
\* detach packet.
FrameBytes == { "?", "a", " ", "0", "x80", "xff", "D" }

\* Every byte string over FrameBytes of length MaxBody or less.
Bodies == UNION { [1..n -> FrameBytes] : n \in 0..MaxBody }

\* The name of every entry of the table, alone and followed by one byte.
TableBodies ==
    { functions[i].name : i \in 1..Len(functions) }
        \cup { functions[i].name \o << c >> : i \in 1..Len(functions), c \in { "?", "0" } }

\* The client sends one well-formed frame.
ClientFrame == reads = 0 /\ \E b \in Bodies \cup TableBodies : Recv(Pkt(b))

NextFrame ==
    \/ ClientFrame
    \/ ScanAck
    \/ ParseInvalid
    \/ DispatchUnknown
    \/ Dispatch
    \/ ContBegin
    \/ SendReply
    \/ Advance
    \/ ScanEnd

\* The session of a client that sends one well-formed frame, the guest stopped.
SpecFrame == Init /\ [][NextFrame]_vars

QfThreadInfo == << "q", "f", "T", "h", "r", "e", "a", "d", "I", "n", "f", "o" >>

QsThreadInfo == << "q", "s", "T", "h", "r", "e", "a", "d", "I", "n", "f", "o" >>

\* A client walks the thread table: one qfThreadInfo, then qsThreadInfo as
\* often as the largest table has threads, and once more.
Enumerate ==
    Pkt(QfThreadInfo) \o Pkt(QsThreadInfo) \o Pkt(QsThreadInfo) \o Pkt(QsThreadInfo)
        \o Pkt(QsThreadInfo)

\* H g tid, tid one hex digit.
SelectThread(tid) == << "H", "g", HexDigits[tid + 1] >>

\* The values a client writes to a register, as eight hex digits.
RegValues ==
    { << "1", "2", "3", "4", "5", "6", "7", "8" >>,
      << "0", "0", "0", "0", "0", "0", "0", "1" >>,
      << "f", "f", "f", "f", "f", "f", "f", "f" >> }

\* p n and P n=h, n in hex.
ReadRegister(n) == << "p" >> \o HexOf(n)

WriteRegister(n, h) == << "P" >> \o HexOf(n) \o << "=" >> \o h

\* One packet for each register handler.
RegisterBodies ==
    { << "g" >>, << "G", "1", "2", "3", "4", "5", "6", "7", "8" >>, ReadRegister(1),
      WriteRegister(1, << "1", "2", "3", "4", "5", "6", "7", "8" >>) }

\* The register packets with no thread selected, and after H g of thread 1 and
\* of thread 3; every register written and read back on thread 1.
RegisterChunks ==
    { Pkt(b) : b \in RegisterBodies }
        \cup { Pkt(SelectThread(t)) \o Pkt(b) : t \in { 1, 3 }, b \in RegisterBodies }
        \cup { Pkt(SelectThread(1)) \o Pkt(WriteRegister(n, h)) \o Pkt(ReadRegister(n)) :
                 n \in Regs, h \in RegValues }

\* The ranges a client reads and writes, address and length in hex: inside
\* the mapped page, at its last bytes, across its end, before it, across its
\* start, the whole page and one byte more, address 0, an empty range, and a
\* range that runs over the end of the address space.
MemRequests ==
    { [addr |-> << "1", "0", "0", "0", "0" >>, len |-> << "2" >>],
      [addr |-> << "1", "0", "f", "f", "e" >>, len |-> << "2" >>],
      [addr |-> << "1", "0", "f", "f", "f" >>, len |-> << "2" >>],
      [addr |-> << "2", "0", "0", "0", "0" >>, len |-> << "1" >>],
      [addr |-> << "f", "f", "f", "f" >>, len |-> << "2" >>],
      [addr |-> << "1", "0", "0", "0", "0" >>, len |-> << "1", "0", "0", "1" >>],
      [addr |-> << "0" >>, len |-> << "1" >>],
      [addr |-> << "1", "0", "0", "0", "0" >>, len |-> << "0" >>],
      [addr |-> << "f", "f", "f", "f", "f", "f", "f", "f" >>, len |-> << "2" >>] }

\* m addr,len and M addr,len:hex, the data two bytes.
ReadMemory(q) == << "m" >> \o q.addr \o << "," >> \o q.len

WriteMemory(q) ==
    << "M" >> \o q.addr \o << "," >> \o q.len \o << ":", "a", "a", "b", "b" >>

MemoryChunks == { Pkt(ReadMemory(q)) : q \in MemRequests }
                    \cup { Pkt(WriteMemory(q)) : q \in MemRequests }

\* X addr,len:data, the data two bytes, one of them above 0x7f.
WriteBinaryBody(q) ==
    << "X" >> \o q.addr \o << "," >> \o q.len \o << ":", "a", "x80" >>

\* X on every range of MemRequests, and X alone.
BinaryChunks == { Pkt(WriteBinaryBody(q)) : q \in MemRequests } \cup { Pkt(<< "X" >>) }

\* The Z and z packets of a client: every type of the protocol, addresses on
\* the mapped page, off it and 0, the breakpoint kinds of ARM.
BreakpointRequests ==
    [packet : { "Z", "z" },
     type   : { "0", "1", "2", "3", "4" },
     addr   : { << "1", "0", "0", "0", "0" >>, << "1", "0", "f", "f", "e" >>,
                << "2", "0", "0", "0", "0" >>, << "0" >> },
     kind   : { "2", "3", "4" }]

Breakpoint(q) == << q.packet, q.type, "," >> \o q.addr \o << ",", q.kind >>

BreakpointChunks == { Pkt(Breakpoint(q)) : q \in BreakpointRequests }

\* H c tid, tid one hex digit.
SelectContinueThread(tid) == << "H", "c", HexDigits[tid + 1] >>

QC == << "q", "C" >>

\* qC first; H g and H c of thread 0 and of every id, each followed by qC.
SelectChunks ==
    { Pkt(QC) }
        \cup { Pkt(SelectThread(t)) \o Pkt(QC) : t \in 0..MaxThreads }
        \cup { Pkt(SelectThread(2)) \o Pkt(SelectContinueThread(t)) \o Pkt(QC) :
                 t \in 0..MaxThreads }

\* What the client's writes deliver to the recv() of a session that inspects
\* the guest.
InspectChunks ==
    { Enumerate } \cup RegisterChunks \cup MemoryChunks \cup BinaryChunks
        \cup BreakpointChunks \cup SelectChunks

\* A client connects: no thread yet, or threads 1 and 2 suspended, or thread 1
\* running and thread 2 dormant.
InitInspect ==
    /\ InitServer
    /\ \/ threads = << >> /\ next_uid = 1
       \/ /\ threads = [t \in { 1, 2 } |-> ThreadState("suspend", "wait", FALSE)]
          /\ next_uid = 3
       \/ /\ threads = [t \in { 1, 2 } |->
                          IF t = 1 THEN ThreadState("run", "wait", FALSE)
                          ELSE ThreadState("dormant", "wait", FALSE)]
          /\ next_uid = 3

ClientInspect == reads = 0 /\ \E chunk \in InspectChunks : Recv(chunk)

\* The client sends back, as the payload of G, the 128 digits g replied.
ClientEcho == reads = 1 /\ Len(last_emitted) = 128 /\ Recv(Pkt(<< "G" >> \o last_emitted))

\* Guest code that changes the thread table.
TableChange ==
    \/ KernelLock
    \/ KernelUnlock
    \/ CreateThread
    \/ \E t \in TIDS : DeleteThread(t)

NextInspect ==
    \/ ClientInspect
    \/ ClientEcho
    \/ ScanAck
    \/ Dispatch
    \/ SendReply
    \/ Advance
    \/ ScanEnd
    \/ TableChange

\* The session of a client that inspects the guest, which may add and remove
\* threads meanwhile.
SpecInspect == InitInspect /\ [][NextInspect]_vars

\* The chunks of a client whose packets fail: no thread selected (E00), an
\* invalid address (EAA), an unknown and an unimplemented packet (empty reply),
\* a wrong checksum (NACK), a request to replay, an H with no operation; each
\* is followed by the packet ?.  And the k packet.
ErrorChunks ==
    { Pkt(<< "g" >>) \o Pkt(<< "?" >>),
      Pkt(<< "m", "0", ",", "1" >>) \o Pkt(<< "?" >>),
      Pkt(<< "D" >>) \o Pkt(<< "?" >>),
      Pkt(<< "X" >>) \o Pkt(<< "?" >>),
      << "$", "?", "#", "0", "0" >> \o Pkt(<< "?" >>),
      << "-", "+", "x" >> \o Pkt(<< "?" >>),
      Pkt(<< "H" >>) \o Pkt(<< "?" >>),
      Pkt(<< "k" >>) }

ClientErrors == \E chunk \in ErrorChunks : Recv(chunk)

NextErrors ==
    \/ ClientErrors
    \/ RecvClosed
    \/ Session
    \/ Shutdown

\* The session of a client whose packets fail, the guest stopped.
SpecErrors == Init /\ [][NextErrors]_vars

\* The vCont bodies of a client: one action, c or s or t, and two actions.
VContBodies ==
    { VContC, VContS,
      << "v", "C", "o", "n", "t", ";", "t" >>,
      << "v", "C", "o", "n", "t", ";", "t", ";", "c" >>,
      << "v", "C", "o", "n", "t", ";", "t", ";", "s" >>,
      << "v", "C", "o", "n", "t", ";", "c", ";", "s" >> }

\* One packet per read, or two steps sent back to back, or a continue with a
\* query behind it.
VContChunks ==
    { Pkt(body) : body \in VContBodies }
        \cup { Pkt(VContS) \o Pkt(VContS), Pkt(VContC) \o Pkt(<< "?" >>) }

ClientVCont == \E chunk \in VContChunks : Recv(chunk)

NextVCont ==
    \/ ClientVCont
    \/ ScanAck
    \/ ScanEnd
    \/ SendReply
    \/ Advance
    \/ Controller
    \/ Guest

\* The session of a client that sends vCont packets, one per read.
SpecVCont == InitCtl /\ [][NextVCont]_vars

\* Where the guest's ELF may be loaded: at 0, 16 bytes up, a page up.
ElfBases == { U32Zero, ToU32(16), ToU32(page_size) }

\* The writes a client reads back: in the mapped page, at its start, further
\* in and at its end, one byte and two, digits of both cases.
WriteReads ==
    { [addr |-> a, len |-> d.len, hex |-> d.hex] :
        a \in { << "1", "0", "0", "0", "0" >>, << "1", "0", "0", "1", "0" >>,
                << "1", "0", "f", "f", "e" >> },
        d \in { [len |-> << "1" >>, hex |-> << "A", "b" >>],
                [len |-> << "2" >>, hex |-> << "0", "c", "9", "D" >>] } }

\* M addr,len:hex and the m addr,len that follows it.
WriteThenReadBack(q) ==
    Pkt(<< "M" >> \o q.addr \o << "," >> \o q.len \o << ":" >> \o q.hex)
        \o Pkt(<< "m" >> \o q.addr \o << "," >> \o q.len)

ClientMemory == reads = 0 /\ \E q \in WriteReads : Recv(WriteThenReadBack(q))

InitMemory ==
    /\ ServerInit
    /\ \E base \in ElfBases, paged \in BOOLEAN : GuestInitAt(base, paged)
    /\ threads = [t \in { 1, 2 } |-> ThreadState("suspend", "wait", FALSE)]
    /\ next_uid = 3

NextMemory ==
    \/ ClientMemory
    \/ ScanAck
    \/ Dispatch
    \/ SendReply
    \/ Advance
    \/ ScanEnd

\* A client writes guest memory and reads it back, the guest stopped.
SpecMemory == InitMemory /\ [][NextMemory]_vars

\* The byte streams of a client whose writes reach the server cut anywhere:
\* frames that are answered, an unknown and a refused one, a frame whose
\* checksum begins with '#', replays, ignored bytes, a frame left unfinished.
Streams ==
    { << "+", "x" >> \o Pkt(<< "?" >>) \o << "-" >>
          \o << "$", "a", "#", "0", "0" >> \o << "-" >>,
      << "$", "?", "#", "#", "1" >> \o Pkt(<< "?" >>),
      Pkt(<< "a" >>) \o << "-" >> \o Pkt(<< "?" >>) \o << "$", "?", "#", "3" >> }

\* recv() returns the next bytes of a stream, any number of them.
ClientSplit ==
    \E stream \in Streams :
    \E n \in 1..Len(stream) :
        /\ Len(inbound) < n
        /\ inbound = SubSeq(stream, 1, Len(inbound))
        /\ Recv(SubSeq(stream, Len(inbound) + 1, n))

NextSplit ==
    \/ ClientSplit
    \/ ScanPlus
    \/ ScanNack
    \/ ScanSkip
    \/ ScanAck
    \/ ScanEnd
    \/ ParseInvalid
    \/ DispatchUnknown
    \/ Dispatch
    \/ SendReply
    \/ Advance

\* The session of a client whose stream is cut into reads at any place.
SpecSplit == Init /\ [][NextSplit]_vars

(***************************************************************************)
(* Framing: acknowledgement, reply, replay, shutdown                       *)
(***************************************************************************)

\* The bytes sent since the packet at the scan position was found.
Response == SubSeq(sent, mark + 1, Len(sent))

\* The frame's two checksum digits are the hex of the mod-256 sum of its body.
ChecksumValid(packet) ==
    LET body == SubSeq(packet, 2, Len(packet) - 3)
        d1   == packet[Len(packet) - 1]
        d2   == packet[Len(packet)]
    IN  /\ HexVal(d1) # -1
        /\ HexVal(d2) # -1
        /\ 16 * HexVal(d1) + HexVal(d2) = make_checksum(body)

C2_BadChecksumNacked ==
    (pc = "advance" /\ client_socket = "open" /\ ~ChecksumValid(packet_data))
        => /\ Response = << "+", "-" >>
           /\ invoked = ""
           /\ Fields = snap

\* The frame $Hg2#00 has been refused.
C2_Witness ==
    /\ pc = "advance"
    /\ client_socket = "open"
    /\ packet_data = << "$", "H", "g", "2", "#", "0", "0" >>
    /\ Response = << "+", "-" >>
    /\ invoked = ""
    /\ Fields = snap

\* C3: once a reply has been emitted, a "-" makes the server send the frame
\* of the reply emitted last.
C3_NackReplaysLastEmitted ==
    [][(/\ pc = "scan"
        /\ pos < Len(recv_buffer)
        /\ recv_buffer[pos + 1] = "-"
        /\ pos' = pos + 1
        /\ client_socket = "open"
        /\ last_emitted # << "none" >>)
          => sent' = sent \o Framed(last_emitted)]_vars

\* C4: once server_die is true no byte is sent.
C4_SilentAfterDie == [][server_die => sent' = sent]_vars

\* The body of a frame: what lies between its "$" and its "#".
FrameBody(packet) == SubSeq(packet, 2, Len(packet) - 3)

\* C11: a frame "$" b "#" and the two lowercase hex digits of checksum(b),
\* b holding neither "$" nor "#", is parsed as a valid frame with body b, and
\* framing b as a reply gives the bytes of the frame.
C11_FramingRoundTrip ==
    (/\ pc = "parse"
     /\ packet_data = Pkt(FrameBody(packet_data))
     /\ \A i \in 1..Len(FrameBody(packet_data)) : FrameBody(packet_data)[i] \notin { "$", "#" })
        => /\ command.is_valid
           /\ command.content = FrameBody(packet_data)
           /\ Framed(command.content) = packet_data

(***************************************************************************)
(* Dispatch                                                                *)
(***************************************************************************)

\* p is a byte-for-byte prefix of s.
IsPrefix(p, s) == Len(p) <= Len(s) /\ \A i \in 1..Len(p) : s[i] = p[i]

\* The entries of the table whose prefix is a prefix of body.
Matches(body) == { i \in 1..Len(functions) : IsPrefix(functions[i].name, body) }

\* The packet at the scan position was valid and has been dispatched.
Dispatched == command.is_valid /\ pc \in { "reply", "advance", "terminated" }

\* C12: for a valid frame the handler invoked is that of the first entry of the
\* table whose prefix is a prefix of the body; when no entry matches no
\* handler is invoked, last_reply is empty and the reply sent is the empty
\* frame.
C12_FirstMatchDispatched ==
    Dispatched =>
        IF Matches(command.content) = {}
        THEN /\ invoked = ""
             /\ last_reply = << >>
             /\ pc = "advance" => Response = << "+" >> \o Framed(<< >>)
        ELSE \E i \in Matches(command.content) :
                /\ \A j \in Matches(command.content) : i <= j
                /\ invoked = functions[i].function

\* The body qC, which q matches too, has reached the handler of qC.
C12_Witness ==
    /\ pc = "reply"
    /\ command.content = << "q", "C" >>
    /\ invoked = "cmd_get_current_thread"

\* C13: no entry of the table has an earlier entry whose prefix is a prefix of
\* its own, and a body equal to an entry's prefix reaches that entry's handler.
C13_NoEntryShadowed ==
    /\ \A i \in 1..Len(functions) : \A j \in 1..(i - 1) :
          ~IsPrefix(functions[j].name, functions[i].name)
    /\ \A i \in 1..Len(functions) :
          (Dispatched /\ command.content = functions[i].name)
              => invoked = functions[i].function

\* The body vCont? has reached the handler of the capabilities.
C13_Witness ==
    /\ pc = "reply"
    /\ command.content = << "v", "C", "o", "n", "t", "?" >>
    /\ invoked = "cmd_continue_supported"
    /\ last_reply = cmd_continue_supported

(***************************************************************************)
(* The execution controller: stop-the-world, progress, locking              *)
(***************************************************************************)

\* cmd_continue is about to return S05 for a continue.
ContinueReplies ==
    /\ pc = "reply"
    /\ invoked = "cmd_continue"
    /\ ~IsStep(command.content)
    /\ last_reply = S05

\* cmd_continue is executing a continue.
InContinueAll ==
    pc \in { "p1_lock", "p1_visit", "p1_resume", "p1_relock", "p1_wait", "p2_lock",
             "p2_visit", "p2_found", "p3_lock", "p3_visit", "p3_wait", "finish" }

\* cmd_continue is executing.
InVCont == pc \in { "inferior", "step_wait" } \/ InContinueAll

\* Thread t is stopped at a breakpoint.
AtBreakpoint(t) ==
    /\ t \in DOMAIN threads
    /\ threads[t].status = "suspend"
    /\ threads[t].hit

\* C5: when the S05 of a continue is about to be sent no thread of the table
\* is running.
C5_WorldStoppedAtS05 ==
    ContinueReplies => \A t \in DOMAIN threads : threads[t].status \in { "suspend", "dormant" }

\* Every thread of the table is suspended.
AllSuspended == \A t \in DOMAIN threads : threads[t].status = "suspend"

\* C6: under fair scheduling, a continue issued while the threads are
\* suspended, during which a thread stops at a breakpoint and stays there, ends
\* with S05 (unless the server is shut down or the process ends).
C6_ContinueEndsWithS05 ==
    AllSuspended =>
        \A t \in TIDS :
            []((InContinueAll /\ []AtBreakpoint(t))
                  => <>(ContinueReplies \/ server_die \/ pc = "terminated"))

\* C7: when a continue replies S05, inferior_thread is the thread phase 2 saw,
\* kernel.mutex held, suspended at a breakpoint, every thread before it in the
\* table having been seen not so; and current_thread is inferior_thread.
C7_InferiorIsObservedBreak ==
    ContinueReplies =>
        /\ inferior_thread = observed.tid
        /\ observed.tid \in observed.keys
        /\ observed.status = "suspend"
        /\ observed.hit
        /\ observed.kmutex = "server"
        /\ observed.skipped = { k \in observed.keys : k < observed.tid }
        /\ current_thread = inferior_thread

\* A continue replies S05 for thread 2, thread 1 having been passed over.
C7_Witness ==
    /\ ContinueReplies
    /\ inferior_thread = 2
    /\ observed.skipped = { 1 }
    /\ current_thread = 2

\* C8: while the controller is blocked in a wait for a thread's status it does
\* not hold kernel.mutex.
C8_WaitsWithoutKernelMutex ==
    pc \in { "step_wait", "p1_wait", "p3_wait" } => kmutex # "server"

\* C9: every access of a handler to guest registers, guest memory,
\* breakpoints, thread status or the thread table is made with kernel.mutex
\* held by the server.
C9_AccessUnderKernelMutex == access.fn # "" => access.kmutex = "server"

\* C10: under fair scheduling, once server_die is true while cmd_continue is
\* executing, the handler returns and the session loop exits.
C10_DieEndsVCont ==
    [](server_die /\ InVCont => <>(pc \in { "closed", "terminated" }))

(***************************************************************************)
(* Thread enumeration                                                      *)
(***************************************************************************)

\* A handler of the thread enumeration has returned.
Enumerated ==
    pc = "reply" /\ invoked \in { "cmd_get_first_thread", "cmd_get_next_thread" }

\* C14: qfThreadInfo and qsThreadInfo never read the thread table through an
\* iterator at or past its end, whatever the table holds and however it
\* changed between the requests; each reply is l or m and the id of a thread.
C14_EnumerationStaysInTable ==
    Enumerated =>
        /\ ~effect.past_end
        /\ \/ last_reply = << "l" >>
           \/ \E t \in TIDS : last_reply = << "m" >> \o to_hex_uid(t)

(***************************************************************************)
(* Registers                                                               *)
(***************************************************************************)

RegisterHandlers ==
    { "cmd_read_registers", "cmd_write_registers", "cmd_read_register",
      "cmd_write_register" }

\* C15: when current_thread is -1 or not a key of the thread table as g, G, p
\* or P is handled, the handler replies E00, accesses no register, leaves
\* every CPU and the thread table as they were, and ran under kernel.mutex.
C15_InvalidThreadE00 ==
    [][(/\ pc = "parse"
        /\ pc' # "parse"
        /\ invoked' \in RegisterHandlers
        /\ (current_thread = -1 \/ current_thread \notin DOMAIN threads))
       => (/\ pc' = "reply"
           /\ last_reply' = E00
           /\ effect'.regs = {}
           /\ cpu' = cpu
           /\ threads' = threads
           /\ access' = [fn |-> invoked', kmutex |-> "server"])]_vars

\* P was handled while current_thread was 3 and the table did not hold it.
C15_Witness ==
    /\ pc = "reply"
    /\ invoked = "cmd_write_register"
    /\ current_thread = 3
    /\ 3 \notin DOMAIN threads
    /\ last_reply = E00
    /\ effect.regs = {}

\* The chunk that selects thread 1, writes h to register n and reads it back.
WriteThenRead(n, h) ==
    Pkt(SelectThread(1)) \o Pkt(WriteRegister(n, h)) \o Pkt(ReadRegister(n))

\* C16: p n after a P n=h that succeeded replies h, for every register n and
\* every value h the client writes; and a G whose payload is the reply of g
\* leaves r0-r12, sp, lr and pc as they were.
C16_RegisterRoundTrip ==
    /\ \A n \in Regs, h \in RegValues :
          (/\ pc = "reply"
           /\ invoked = "cmd_read_register"
           /\ 1 \in DOMAIN threads
           /\ recv_buffer = WriteThenRead(n, h)) => last_reply = h
    /\ (/\ pc = "reply"
        /\ invoked = "cmd_write_registers"
        /\ reads = 2
        /\ last_reply = OK)
           => \A n \in 0..15 : cpu[current_thread][n] = InitialRegs(current_thread)[n]

(***************************************************************************)
(* Memory                                                                  *)
(***************************************************************************)

\* Whether every page the range [address, address + length) touches is valid
\* and the range ends inside the 32-bit address space.
EveryPageValid(address, length) ==
    \/ length = 0
    \/ LET last == U32Add(address, ToU32(length - 1))
       IN  /\ ~U32Less(last, address)
           /\ \A page \in PageOf(address)..PageOf(last) : page \in ValidPages

\* The handler of m or M has ended on the range q.
MemoryHandled(q) ==
    /\ pc \in { "reply", "terminated" }
    /\ \/ invoked = "cmd_read_memory" /\ command.content = ReadMemory(q)
       \/ invoked = "cmd_write_memory" /\ command.content = WriteMemory(q)

\* C17: m and M on a range that touches an invalid page, or that runs over the
\* end of the address space, reply EAA and read or write no guest byte.
C17_InvalidRangeEAA ==
    \A q \in MemRequests :
        (MemoryHandled(q) /\ ~EveryPageValid(parse_hex(q.addr), ToInt32(parse_hex(q.len))))
            => /\ pc = "reply"
               /\ last_reply = EAA
               /\ effect.bytes = {}
               /\ mem.bytes = << >>

\* The packet being handled has a body that begins with X.
BeginsWithX == command.is_valid /\ Len(command.content) >= 1 /\ command.content[1] = "X"

\* C18: a packet whose body begins with X is given to the handler that replies
\* nothing, ends no process, and leaves guest memory as it was; its reply is
\* the empty frame.
C18_XNeverWrites ==
    (BeginsWithX /\ pc \in { "reply", "advance", "terminated" })
        => /\ invoked = "cmd_unimplemented"
           /\ pc # "terminated"
           /\ last_reply = << >>
           /\ effect.bytes = {}
           /\ mem.bytes = << >>
           /\ pc = "advance" => Response = << "+" >> \o Framed(<< >>)

\* X on two bytes of the mapped page has been answered.
C18_Witness ==
    /\ pc = "advance"
    /\ command.content = << "X", "1", "0", "0", "0", "0", ",", "2", ":", "a", "x80" >>
    /\ Response = << "+", "$", "#", "0", "0" >>
    /\ mem.bytes = << >>

(***************************************************************************)
(* Breakpoints                                                             *)
(***************************************************************************)

\* The one call to the debugger request q asks for.
BreakpointCall(q) ==
    IF q.packet = "Z"
    THEN [fn |-> "add_breakpoint", address |-> parse_hex(q.addr), thumb |-> q.kind = "2"]
    ELSE [fn |-> "remove_breakpoint", address |-> parse_hex(q.addr), thumb |-> FALSE]

\* C19: Z and z on a valid guest address reply OK after exactly one call,
\* add_breakpoint(addr, kind = 2) for Z and remove_breakpoint(addr) for z; on
\* an invalid address they reply EAA and call nothing; the type changes
\* neither.
C19_BreakpointCalls ==
    \A q \in BreakpointRequests :
        (/\ pc \in { "reply", "terminated" }
         /\ command.is_valid
         /\ command.content = Breakpoint(q))
            => /\ pc = "reply"
               /\ invoked = IF q.packet = "Z" THEN "cmd_add_breakpoint"
                            ELSE "cmd_remove_breakpoint"
               /\ IF PageOf(parse_hex(q.addr)) \in ValidPages
                  THEN last_reply = OK /\ effect.calls = << BreakpointCall(q) >>
                  ELSE last_reply = EAA /\ effect.calls = << >>

\* Z1,10000,2 has set a Thumb breakpoint at 0x10000.
C19_Witness ==
    /\ pc = "reply"
    /\ command.content = << "Z", "1", ",", "1", "0", "0", "0", "0", ",", "2" >>
    /\ last_reply = OK
    /\ effect.calls = << [fn |-> "add_breakpoint", address |-> U32(1, 0), thumb |-> TRUE] >>

(***************************************************************************)
(* Thread selection                                                        *)
(***************************************************************************)

\* resolve(tid) on the thread table as it is.
Resolve(tid) ==
    IF tid # 0 THEN tid
    ELSE IF DOMAIN threads = {} THEN -1
    ELSE CHOOSE t \in DOMAIN threads : \A u \in DOMAIN threads : t <= u

\* The eight hex digits of a 32-bit id, negative ids in two's complement.
Hex8(id) == IF id >= 0 THEN to_hex(ToU32(id)) ELSE to_hex(U32Neg(ToU32(-id)))

\* The handler called for the packet at the scan position returns in this step.
Handles(fn) == pc = "parse" /\ pc' # "parse" /\ invoked' = fn

\* C20: H g tid replies OK and sets current_thread to resolve(tid) on the table
\* of that moment; H c tid replies OK and leaves current_thread as it was; qC
\* replies QC and the eight hex digits of current_thread.
C20_SelectThenQuery ==
    [][/\ \A t \in 0..MaxThreads :
             (Handles("cmd_set_current_thread") /\ command.content = SelectThread(t))
                 => pc' = "reply" /\ last_reply' = OK /\ current_thread' = Resolve(t)
       /\ \A t \in 0..MaxThreads :
             (Handles("cmd_set_current_thread") /\ command.content = SelectContinueThread(t))
                 => pc' = "reply" /\ last_reply' = OK /\ current_thread' = current_thread
       /\ Handles("cmd_get_current_thread")
             => /\ pc' = "reply"
                /\ current_thread' = current_thread
                /\ last_reply' = << "Q", "C" >> \o Hex8(current_thread)]_vars

(***************************************************************************)
(* Shutdown packets and errors                                             *)
(***************************************************************************)

VKill == << "v", "K", "i", "l", "l" >>

\* C21: once the k packet is handled server_die is set; the vKill packet and
\* the detach packet D are each answered with OK.
C21_KillAndDetach ==
    /\ (/\ pc \in { "reply", "advance" }
        /\ command.is_valid
        /\ command.content = << "k" >>) => server_die
    /\ (/\ pc = "advance"
        /\ command.is_valid
        /\ command.content \in { VKill, << "D" >> }) => Response = << "+" >> \o Framed(OK)

\* C22: the session ends only on k, on a read that returns nothing, or on a
\* shutdown from outside: no step of a handler ends the process, server_die
\* is set only by the k packet or by server_close, the socket is closed only
\* by server_close, and the loop of server_listen is left only from the
\* select or with server_die set; a packet ? that follows an error is
\* acknowledged and answered as ever.
C22_ErrorsAreLocal ==
    [][/\ pc' # "terminated"
       /\ (server_die' /\ ~server_die)
             => \/ pc = "parse" /\ invoked' = "cmd_die"
                \/ client_socket' = "BAD_SOCK"
       /\ client_socket' # client_socket => (pc = "closing" \/ pc' = pc)
       /\ (pc' = "closing" /\ pc # "closing") => (pc = "select" \/ server_die)
       /\ (/\ pc' = "advance"
           /\ pc = "reply"
           /\ command.content = << "?" >>
           /\ ~server_die
           /\ client_socket = "open")
             => SubSeq(sent', mark + 1, Len(sent')) = << "+" >> \o Framed(S05)]_vars

(***************************************************************************)
(* The execution controller: the actions of a vCont                        *)
(***************************************************************************)

\* The letter of the first action of a vCont body, "" when it has none.
FirstAction(content) == IF Len(content) >= 7 THEN content[7] ELSE ""

\* C23: a vCont acts on its first action only.  When that is none of c, C, s,
\* S the handler never enters the code that resumes and suspends threads and
\* its reply is empty; when it is c or C no thread is stepped; when it is s or
\* S the world is not resumed.
C23_OnlyFirstAction ==
    invoked = "cmd_continue" =>
        /\ FirstAction(command.content) \notin { "c", "C", "s", "S" }
              => /\ ~InVCont
                 /\ pc \in { "reply", "advance" } => last_reply = << >>
        /\ FirstAction(command.content) \in { "c", "C" } => pc # "step_wait"
        /\ FirstAction(command.content) \in { "s", "S" } => ~InContinueAll \/ pc = "finish"

\* cmd_continue is handling a request whose action is a step.
Stepping ==
    /\ pc \in { "parse", "inferior", "step_wait", "finish" }
    /\ command.is_valid
    /\ FoundFunction(command.content) = "cmd_continue"
    /\ FirstAction(command.content) \in { "s", "S" }

\* C24: a step request goes on to resume inferior_thread with step = true,
\* and the process lives; no step of the handler changes another thread or
\* tells a thread to suspend; the handler is done only when the inferior
\* thread's status is suspend; it then sets current_thread to inferior_thread
\* and the reply to S05.
C24_StepOneThread ==
    [][(Stepping /\ pc' # pc) =>
          /\ pc' # "terminated"
          /\ pc = "parse" => pc' = "inferior"
          /\ pc = "inferior" =>
                /\ inferior_thread \in DOMAIN threads
                /\ threads' = Resumed(inferior_thread, TRUE)
          /\ pc # "inferior" => threads' = threads
          /\ \A t \in DOMAIN threads' : threads'[t].to_do # "suspend"
          /\ pc' = "finish" =>
                /\ inferior_thread \in DOMAIN threads'
                /\ threads'[inferior_thread].status = "suspend"
          /\ pc = "finish" =>
                /\ pc' = "reply"
                /\ current_thread' = inferior_thread
                /\ last_reply' = S05]_vars

\* A vCont frame has been acknowledged and its handler has not returned.
HandlingVCont ==
    \/ /\ pc = "parse"
       /\ command.is_valid
       /\ FoundFunction(command.content) = "cmd_continue"
    \/ /\ InVCont
       /\ invoked = "cmd_continue"

\* C25: while a vCont is handled no byte is received or consumed, no byte is
\* sent, no other frame is parsed and no other handler is entered; and a
\* thread is told to run, to step or to suspend by the vCont handler only.
C25_OneHandlerAtATime ==
    [][/\ HandlingVCont =>
             /\ recv_buffer' = recv_buffer
             /\ pos' = pos
             /\ reads' = reads
             /\ sent' = sent
             /\ command' = command
             /\ invoked' \in { invoked, "cmd_continue" }
       /\ \A t \in DOMAIN threads \cap DOMAIN threads' :
             (/\ threads'[t].to_do # threads[t].to_do
              /\ threads'[t].to_do \in { "run", "step", "suspend" })
                => /\ InVCont
                   /\ invoked = "cmd_continue"]_vars

\* The server polls in phase 2 with another frame waiting in the buffer,
\* threads running.
C25_Witness ==
    /\ pc = "p2_lock"
    /\ invoked = "cmd_continue"
    /\ pos + packet_len < Len(recv_buffer)
    /\ Running # {}

\* A continue has returned the empty reply: it saw server_die in phase 2.
DiedInPhase2 ==
    /\ pc \in { "reply", "advance" }
    /\ invoked = "cmd_continue"
    /\ VContCmd(command.content) \in { "c", "C" }
    /\ last_reply = << >>

\* C26: a poll of phase 2 that sees server_die returns the empty reply and
\* changes no thread; after it nothing but the `+` has been sent for the
\* frame (not even that when the socket was closed first), no thread has been told to suspend, and inferior_thread and
\* current_thread are what they were when the frame was acknowledged.
C26_DieInPhaseTwo ==
    [][/\ (pc = "p2_lock" /\ server_die /\ pc' # pc) =>
             /\ pc' = "reply"
             /\ last_reply' = << >>
             /\ threads' = threads
       /\ DiedInPhase2' =>
             /\ SubSeq(sent', mark' + 1, Len(sent')) \in { << >>, << "+" >> }
             /\ inferior_thread' = snap'.inferior_thread
             /\ current_thread' = snap'.current_thread
             /\ \A t \in DOMAIN threads' : threads'[t].to_do # "suspend"]_vars

\* The continue that followed a stop has returned on server_die, a thread
\* still running.
C26_Witness ==
    /\ DiedInPhase2
    /\ pc = "advance"
    /\ snap.inferior_thread # 0
    /\ Running # {}

\* C29: in a continue, resume() is called on a thread that is in the table
\* with status suspend, on the inferior thread before phase 1 and in phase 1
\* on a thread other than that one.
C29_ResumeOnce ==
    [][/\ (pc = "inferior" /\ pc' # pc /\ ~IsStep(command.content)) =>
             /\ inferior_thread \in DOMAIN threads
             /\ threads[inferior_thread].status = "suspend"
       /\ (pc = "p1_resume" /\ pc' # pc) =>
             /\ it \in DOMAIN threads
             /\ threads[it].status = "suspend"
             /\ it # inferior_thread]_vars

(***************************************************************************)
(* Bytes between frames                                                    *)
(***************************************************************************)

\* The scan is at a byte outside a frame that is '+' or none of '+', '-', '$'.
AtIgnoredByte ==
    /\ pc = "scan"
    /\ pos < Len(recv_buffer)
    /\ recv_buffer[pos + 1] \notin { "-", "$" }

\* C27: a '+' and a byte that is none of '+', '-', '$' are consumed one at a
\* time, nothing is sent and last_reply, current_thread, inferior_thread and
\* thread_info_index stay; the frame that follows is acknowledged and parsed
\* from its own bytes, and a `?` after such bytes is answered S05.
C27_IgnoredBytes ==
    [][/\ AtIgnoredByte =>
             /\ sent' = sent
             /\ last_reply' = last_reply
             /\ current_thread' = current_thread
             /\ inferior_thread' = inferior_thread
             /\ thread_info_index' = thread_info_index
             /\ recv_buffer' = recv_buffer
             /\ pos' \in { pos, pos + 1 }
             /\ pc' = "scan"
       /\ (pc = "scan" /\ pc' = "parse") =>
             /\ sent' = Send(<< "+" >>)
             /\ command' = parse_command(SubSeq(recv_buffer, pos + 1,
                                                HashIndex(recv_buffer, pos) + 3))
       /\ (/\ pc = "reply" /\ pc' = "advance" /\ command.content = << "?" >>
           /\ ~server_die /\ client_socket = "open")
             => SubSeq(sent', mark + 1, Len(sent')) = << "+" >> \o Framed(S05)]_vars

\* A `?` has been answered after a '+' and another byte were skipped in front
\* of its frame.
C27_Witness ==
    /\ pc = "advance"
    /\ command.content = << "?" >>
    /\ pos = 3
    /\ SubSeq(recv_buffer, 2, 3) = << "+", "x" >>
    /\ SubSeq(sent, mark + 1, Len(sent)) = << "+" >> \o Framed(S05)

(***************************************************************************)
(* The stream and its reads                                                *)
(***************************************************************************)

\* What a server that is given buf in one read has sent, holds as last_reply
\* and keeps in its buffer when it has scanned buf from p, having sent out and
\* holding last: the frames here are `?`, answered S05, and frames of no
\* handler, answered with the empty reply.
RECURSIVE ServeWhole(_, _, _, _)
ServeWhole(buf, p, out, last) ==
    IF p >= Len(buf) THEN [sent |-> out, last_reply |-> last, rest |-> << >>]
    ELSE IF buf[p + 1] = "-" THEN ServeWhole(buf, p + 1, out \o Framed(last), last)
    ELSE IF buf[p + 1] # "$" THEN ServeWhole(buf, p + 1, out, last)
    ELSE IF HashIndex(buf, p) = -1
    THEN [sent |-> out, last_reply |-> last, rest |-> Tail_(buf, p + 1)]
    ELSE LET len  == (HashIndex(buf, p) + 3) - p
             cmd  == parse_command(SubSeq(buf, p + 1, p + len))
             body == IF FoundFunction(cmd.content) = "cmd_reason" THEN S05 ELSE << >>
         IN  IF cmd.is_valid
             THEN ServeWhole(buf, p + len, out \o << "+" >> \o Framed(body), body)
             ELSE ServeWhole(buf, p + len, out \o << "+", "-" >>, last)

Lower(c) == IF HexVal(c) >= 0 THEN HexDigits[HexVal(c) + 1] ELSE c

\* C30: when M addr,len:hex has been answered OK and the m addr,len behind
\* it has been handled, the answer to m is hex in lowercase, and every byte
\* the guest holds outside [addr, addr + len) is what it was.
C30_WriteReadBack ==
    \A q \in WriteReads :
        (/\ pc = "select"
         /\ inbound = WriteThenReadBack(q)
         /\ SubSeq(sent, 1, 7) = << "+" >> \o Framed(OK))
            => /\ sent = << "+" >> \o Framed(OK) \o << "+" >>
                           \o Framed([i \in 1..Len(q.hex) |-> Lower(q.hex[i])])
               /\ \A x \in DOMAIN mem.bytes :
                     x \notin Range(parse_hex(q.addr), ToInt32(parse_hex(q.len)))
                        => mem.bytes[x] = GuestByte(x)

(***************************************************************************)
(* The inferior thread of a vCont                                          *)
(***************************************************************************)

\* C31: cmd_continue looks up threads[inferior_thread], which adds an entry
\* for a key that is absent, and calls through what it finds, only when
\* inferior_thread is a key of the table; get_thread(inferior_thread) after
\* the poll finds a thread; the process lives; and the id current_thread is
\* set to has been the id of a thread.
C31_InferiorIsLive ==
    [][/\ (pc = "inferior" /\ pc' # pc) =>
             /\ inferior_thread # 0
             /\ inferior_thread \in DOMAIN threads
       /\ (pc = "p2_found" /\ pc' # pc) => inferior_thread \in DOMAIN threads
       /\ (pc \in { "inferior", "p2_found" }) => pc' # "terminated"
       /\ (pc = "finish" /\ pc' = "reply") => current_thread' \in 1..(next_uid - 1)]_vars

(***************************************************************************)
(* The traversals of the thread table                                      *)
(***************************************************************************)

\* The controller is inside a traversal of the table: phase 1, one poll of
\* phase 2, phase 3.
InTraversal ==
    pc \in { "p1_visit", "p1_resume", "p1_relock", "p1_wait", "p2_visit", "p3_visit",
             "p3_wait" }

\* C32: from the start of a traversal to its end no entry is added to the
\* table and none is removed, and the element the traversal is at is in the
\* table.
C32_TableUnchanging ==
    [][InTraversal =>
          /\ DOMAIN threads' = DOMAIN threads
          /\ it # 0 => it \in DOMAIN threads]_vars

====
